---- MODULE Spec2Model ----
(***************************************************************************)
(* Verification model of the ai-job-agent pipeline: token-bucket rate      *)
(* limiter, job dedup / location filter, gather_jobs, the LLM response     *)
(* parsers, the DOCX template engine and the resume degradation ladder.    *)
(* Every subsystem has its own specification (SpecBucket, SpecGather, ...) *)
(* over one shared set of variables; the variables of the other            *)
(* subsystems stay at their idle values.                                   *)
(***************************************************************************)
EXTENDS Integers, Sequences, FiniteSets, TLC

\* ------------------------------------------------------------------ bounds
MaxCap == 2         \* largest rate_per_min given to a TokenBucket
MaxN == 3           \* largest n passed to consume(n)
MaxClock == 4       \* the clock stops advancing this many minutes after construction
MaxCalls == 5       \* consume calls followed per bucket
MaxChars == 2       \* characters in a (title, company, location) triple
MaxEdits == 2       \* re-casings / paddings / edits applied to a triple
MaxFrags == 2       \* fragments a location string is put together from
MaxPlaces == 2      \* entries of the cities list and of the countries list
MaxKeywords == 2    \* entries of prefs.keywords
MaxIds == 2         \* distinct job_ids the providers can yield
MaxYield == 3       \* JobPosts yielded over a whole gather_jobs run
MaxParas == 4       \* paragraphs of a document handed to the template engine
MaxJobs == 2        \* JobPosts handed to process_jobs
MaxLines == 3       \* lines of a model response
MaxUpdates == 3     \* section updates run on one template
MaxCards == 2       \* cards of an Internshala listing page
MaxGets == 6        \* requests of one LinkedIn search

VARIABLES
    \* ---- utils/rate_limit.py: TokenBucket fields and its clock
    capacity,       \* self.capacity (tokens)
    tokens,         \* self.tokens, in sixtieths of a token
    last,           \* self.last, in ticks of 1/capacity time-unit
    now,            \* time.time(), same unit as last
    born,           \* time.time() at construction
    returned,       \* consume calls that have returned
    lastCall,       \* what the latest consume call did
    \* ---- utils/dedupe.py: two argument triples of job_key and their keys
    triple,         \* <<title, company, location>> of the first call
    other,          \* the triple of the second call
    edits,          \* how `other` was derived from `triple`
    keys,           \* <<job_key(triple), job_key(other)>>, empty before the calls
    \* ---- utils/location_filter.py: the arguments of is_location_ok
    location, cities, countries, remote_ok, remote_global_ok,
    loc_result,     \* <<its return value>>, empty before the call
    \* ---- main.py gather_jobs and storage/db.py
    keywords,       \* prefs.keywords
    providers,      \* the enabled (name, search) pairs, in the order of lines 30-33
    kw_i, prov_i,   \* the position of the two for loops
    gather_pc,      \* "next": between provider calls, "iter": inside one, "done": returned
    results,        \* results
    seen_ids,       \* seen_ids
    jobs_table,     \* the rows of table jobs, by id
    upserts,        \* the job_ids upsert_job was called with, in call order
    yielded,        \* every JobPost the providers yielded, in yield order
    fetch_i,        \* the fetch (page) of the provider call at hand
    call_from,      \* len(results) when the latest provider call began
    ended,          \* how the latest provider call ended
    searched,       \* the (keyword, provider) pairs searched, in call order
    \* ---- generators/services/resume_tailor.py: a python-docx Document
    doc,            \* the children of the document body, in document order
    doc_before,     \* the same before the engine touched it
    engine_call,    \* what the latest template-engine call was and returned
    \* ---- main.py process_jobs and the services it calls
    profile,        \* the parsed ResumeProfile
    jobs,           \* the JobPosts handed to process_jobs
    job_i,          \* the position of the for loop of line 53
    proc_pc,        \* where process_jobs stands in the body of the loop
    processed,      \* processed
    applications,   \* the job_ids of table applications
    tailored,       \* <<tailored_data>> of the job at hand, empty before line 74 returns
    resume_out,     \* <<the file at resume_out>> of the job at hand, empty while there is none
    events,         \* what the steps of the job at hand did, in order
    create_call,    \* what the latest create_tailored_resume call did
    job_log,        \* one entry per job that passed the gate of lines 54-58, and its fate
    apply_calls,    \* the job_ids apply was called with, in call order
    \* ---- generators/utils/parsing_utils.py parse_llm_response
    response,       \* the text the model returned
    parse_pc,       \* the section parser to call next, "done" or "raised"
    parsed,         \* the TailoredResumeData being filled
    \* ---- streamlit_app.py: the dashboard and its search thread
    search_running, \* st.session_state.search_running
    session_jobs,   \* st.session_state.jobs
    th_args,        \* the (keywords, provider_list) the thread was started with
    th_pc,          \* "idle": no thread, "next": between provider calls, "iter": inside one, "finished"
    th_kw, th_prov, \* the position of the two for loops of the thread
    th_seen,        \* seen_ids of the thread
    th_yields,      \* JobPosts the providers have yielded to the thread
    stop_pressed,   \* the user pressed Stop since the thread was started
    th_late,        \* the provider call at hand began after Stop was pressed
    late_calls,     \* provider calls begun after Stop was pressed
    late_jobs,      \* jobs appended by provider calls begun after Stop was pressed
    th2_pc,         \* a second search thread: "idle" (not started), "running", "finished"
    \* ---- the styles part of the template document
    doc_styles,     \* names of the styles doc.styles holds
    style_log,      \* per section update run: the section, whether it raised, the style it missed
    \* ---- providers/*.py: the requests one search call sends out
    fs_provider,    \* the provider whose search runs
    fs_locs,        \* entries of the locations list handed to search
    fs_pc,          \* where the search is
    fs_page,        \* listing pages / cards gone through so far
    fs_log,        \* the consume calls and outbound fetches of the search, in order
    \* ---- providers/*.py: the loop over the cards of a listing page
    yp_provider,    \* the provider whose search goes through its cards
    yp_cfg,         \* cfg.cities, cfg.countries, cfg.remote_ok, cfg.remote_global_ok
    yp_card,        \* the card (or LinkedIn item) the loop body last ran on
    yp_out         \* the JobPost that card gave, none when it was skipped

bucketVars == <<capacity, tokens, last, now, born, returned, lastCall>>
keyVars == <<triple, other, edits, keys>>
locVars == <<location, cities, countries, remote_ok, remote_global_ok, loc_result>>
gatherVars == <<keywords, providers, kw_i, prov_i, gather_pc, results, seen_ids,
                jobs_table, upserts, yielded, fetch_i, call_from, ended, searched>>
docVars == <<doc, doc_before, engine_call>>
procVars == <<profile, jobs, job_i, proc_pc, processed, applications, tailored,
              resume_out, events, create_call, job_log, apply_calls>>
parseVars == <<response, parse_pc, parsed>>
dashVars == <<search_running, session_jobs, th_args, th_pc, th_kw, th_prov, th_seen, th_yields,
              stop_pressed, th_late, late_calls, late_jobs, th2_pc>>
styleVars == <<doc_styles, style_log>>
fetchVars == <<fs_provider, fs_locs, fs_pc, fs_page, fs_log>>
yieldVars == <<yp_provider, yp_cfg, yp_card, yp_out>>
vars == <<bucketVars, keyVars, locVars, gatherVars, docVars, procVars, parseVars, dashVars, styleVars, fetchVars, yieldVars>>

\* the one character U+2022
BULLET == "bullet"

\* the one character U+2013
EN_DASH == "en dash"

\* Python's None, where a string may stand (no string has this character)
None == <<"None">>

\* =========================================================================
\* Python str: a string is a sequence of one-character strings
\* =========================================================================
Str(w) ==
    CASE w = "" -> <<>>
      [] w = "remote" -> <<"r", "e", "m", "o", "t", "e">>
      [] w = "Remote" -> <<"R", "e", "m", "o", "t", "e">>
      [] w = "REM" -> <<"R", "E", "M">>
      [] w = "ote" -> <<"o", "t", "e">>
      [] w = "ville" -> <<"v", "i", "l", "l", "e">>
      [] w = "Ville" -> <<"V", "i", "l", "l", "e">>
      [] w = "Goa" -> <<"G", "o", "a">>
      [] w = "goa" -> <<"g", "o", "a">>
      [] w = "India" -> <<"I", "n", "d", "i", "a">>
      [] w = ", " -> <<",", " ">>
      [] w = "SKILLS" -> <<"S", "K", "I", "L", "L", "S">>
      [] w = "Soft Skills" -> <<"S", "o", "f", "t", " ", "S", "k", "i", "l", "l", "s">>
      [] w = "EDUCATION" -> <<"E", "D", "U", "C", "A", "T", "I", "O", "N">>
      [] w = "Python" -> <<"P", "y", "t", "h", "o", "n">>
      [] w = "B.Tech" -> <<"B", ".", "T", "e", "c", "h">>
      [] w = "Ada" -> <<"A", "d", "a">>
      [] w = "Old" -> <<"O", "l", "d">>
      [] w = "New" -> <<"N", "e", "w">>
      [] w = "Dev" -> <<"D", "e", "v">>
      [] w = "App" -> <<"A", "p", "p">>
      [] w = "Paper" -> <<"P", "a", "p", "e", "r">>
      [] w = "Tools" -> <<"T", "o", "o", "l", "s">>
      [] w = "SUMMARY" -> <<"S", "U", "M", "M", "A", "R", "Y">>
      [] w = "EXPERIENCE" -> <<"E", "X", "P", "E", "R", "I", "E", "N", "C", "E">>
      [] w = "PROJECTS" -> <<"P", "R", "O", "J", "E", "C", "T", "S">>
      [] w = "PERSONAL PROJECTS" -> <<"P", "E", "R", "S", "O", "N", "A", "L", " ", "P", "R", "O", "J", "E", "C", "T", "S">>
      [] w = "SIDE PROJECTS" -> <<"S", "I", "D", "E", " ", "P", "R", "O", "J", "E", "C", "T", "S">>
      [] w = "RESEARCH PUBLICATIONS" -> <<"R", "E", "S", "E", "A", "R", "C", "H", " ", "P", "U", "B", "L", "I", "C", "A", "T", "I", "O", "N", "S">>
      [] w = "RESEARCH & PUBLICATIONS" -> <<"R", "E", "S", "E", "A", "R", "C", "H", " ", "&", " ", "P", "U", "B", "L", "I", "C", "A", "T", "I", "O", "N", "S">>
      [] w = "PUBLICATIONS" -> <<"P", "U", "B", "L", "I", "C", "A", "T", "I", "O", "N", "S">>
      [] w = "RESEARCH" -> <<"R", "E", "S", "E", "A", "R", "C", "H">>
      [] w = "Skills" -> <<"S", "k", "i", "l", "l", "s">>
      [] w = ": " -> <<":", " ">>
      [] w = "-------" -> <<"-", "-", "-", "-", "-", "-", "-">>
      [] w = "Title" -> <<"T", "i", "t", "l", "e">>
      [] w = "Heading3" -> <<"H", "e", "a", "d", "i", "n", "g", "3">>
      [] w = "ListBullet" -> <<"L", "i", "s", "t", "B", "u", "l", "l", "e", "t">>
      [] w = "BodyText" -> <<"B", "o", "d", "y", "T", "e", "x", "t">>
      [] w = "## SUMMARY" -> <<"#", "#", " ", "S", "U", "M", "M", "A", "R", "Y">>
      [] w = "## Experience" -> <<"#", "#", " ", "E", "x", "p", "e", "r", "i", "e", "n", "c", "e">>
      [] w = "## WORK EXPERIENCE" -> <<"#", "#", " ", "W", "O", "R", "K", " ", "E", "X", "P", "E", "R", "I", "E", "N", "C", "E">>
      [] w = "## PROJECTS ##" -> <<"#", "#", " ", "P", "R", "O", "J", "E", "C", "T", "S", " ", "#", "#">>
      [] w = "## SKILLS" -> <<"#", "#", " ", "S", "K", "I", "L", "L", "S">>
      [] w = "## EDUCATION" -> <<"#", "#", " ", "E", "D", "U", "C", "A", "T", "I", "O", "N">>
      [] w = "## RESEARCH PUBLICATIONS" -> <<"#", "#", " ", "R", "E", "S", "E", "A", "R", "C", "H", " ", "P", "U", "B", "L", "I", "C", "A", "T", "I", "O", "N", "S">>
      [] w = "### Dev" -> <<"#", "#", "#", " ", "D", "e", "v">>
      [] w = "- App" -> <<"-", " ", "A", "p", "p">>
      [] w = "##" -> <<"#", "#">>
      [] w = "###" -> <<"#", "#", "#">>
      [] w = "WORK" -> <<"W", "O", "R", "K">>
      [] w = "PROFESSIONAL" -> <<"P", "R", "O", "F", "E", "S", "S", "I", "O", "N", "A", "L">>
      [] w = "ABOUT" -> <<"A", "B", "O", "U", "T">>
      [] w = "ME" -> <<"M", "E">>
      [] w = "SELECTED" -> <<"S", "E", "L", "E", "C", "T", "E", "D">>
      [] w = "TECHNICAL" -> <<"T", "E", "C", "H", "N", "I", "C", "A", "L">>
      [] w = "Present" -> <<"P", "r", "e", "s", "e", "n", "t">>
      [] w = "Current" -> <<"C", "u", "r", "r", "e", "n", "t">>
      [] w = "gpa" -> <<"g", "p", "a">>
      [] w = "grade" -> <<"g", "r", "a", "d", "e">>
      [] w = "honor" -> <<"h", "o", "n", "o", "r">>
      [] w = "distinction" -> <<"d", "i", "s", "t", "i", "n", "c", "t", "i", "o", "n">>
      [] w = "thesis" -> <<"t", "h", "e", "s", "i", "s">>
      [] w = " at " -> <<" ", "a", "t", " ">>
      [] w = " in " -> <<" ", "i", "n", " ">>
      [] w = " from " -> <<" ", "f", "r", "o", "m", " ">>
      [] w = "Technical Skills" -> <<"T", "e", "c", "h", "n", "i", "c", "a", "l", " ", "S", "k", "i", "l", "l", "s">>
      [] w = " | " -> <<" ", "|", " ">>
      [] w = "..." -> <<".", ".", ".">>
      [] w = "\n" -> <<"\n">>
      [] w = "Heading1" -> <<"H", "e", "a", "d", "i", "n", "g", "1">>
      [] w = "Heading2" -> <<"H", "e", "a", "d", "i", "n", "g", "2">>
      [] w = "heading" -> <<"h", "e", "a", "d", "i", "n", "g">>
      [] w = "title" -> <<"t", "i", "t", "l", "e">>
      [] w = "subtitle" -> <<"s", "u", "b", "t", "i", "t", "l", "e">>

UpperLetters == <<"A", "B", "C", "D", "E", "F", "G", "H", "I", "J", "K", "L", "M",
                  "N", "O", "P", "Q", "R", "S", "T", "U", "V", "W", "X", "Y", "Z">>
LowerLetters == <<"a", "b", "c", "d", "e", "f", "g", "h", "i", "j", "k", "l", "m",
                  "n", "o", "p", "q", "r", "s", "t", "u", "v", "w", "x", "y", "z">>

\* str.lower() on one character
LowerChar(c) ==
    IF \E k \in 1..26 : UpperLetters[k] = c
    THEN LowerLetters[CHOOSE k \in 1..26 : UpperLetters[k] = c]
    ELSE c

\* str.upper() on one character
UpperChar(c) ==
    IF \E k \in 1..26 : LowerLetters[k] = c
    THEN UpperLetters[CHOOSE k \in 1..26 : LowerLetters[k] = c]
    ELSE c

Lower(s) == [i \in 1..Len(s) |-> LowerChar(s[i])]

Upper(s) == [i \in 1..Len(s) |-> UpperChar(s[i])]

\* s.startswith(prefix)
StartsWith(s, prefix) == Len(prefix) <= Len(s) /\ SubSeq(s, 1, Len(prefix)) = prefix

IsSpace(c) == c \in {" ", "\t", "\n"}

RECURSIVE LStrip(_)
LStrip(s) == IF s # <<>> /\ IsSpace(Head(s)) THEN LStrip(Tail(s)) ELSE s

RECURSIVE RStrip(_)
RStrip(s) == IF s # <<>> /\ IsSpace(s[Len(s)]) THEN RStrip(SubSeq(s, 1, Len(s) - 1)) ELSE s

\* str.strip()
Strip(s) == RStrip(LStrip(s))

\* needle in hay
Contains(hay, needle) ==
    \E i \in 0..(Len(hay) - Len(needle)) : SubSeq(hay, i + 1, i + Len(needle)) = needle

RECURSIVE Concat(_)
Concat(ss) == IF ss = <<>> THEN <<>> ELSE Head(ss) \o Concat(Tail(ss))

\* all sequences over S of length at most n
SeqsUpTo(S, n) == UNION {[1..k -> S] : k \in 0..n}

\* idle values of the subsystems a specification does not run
KeyIdle == triple = <<>> /\ other = <<>> /\ edits = <<>> /\ keys = <<>>
LocIdle == /\ location = None /\ cities = <<>> /\ countries = <<>>
           /\ remote_ok = FALSE /\ remote_global_ok = FALSE /\ loc_result = <<>>

GatherIdle == /\ keywords = <<>> /\ providers = <<>> /\ kw_i = 0 /\ prov_i = 0
              /\ gather_pc = "idle" /\ results = <<>> /\ seen_ids = {}
              /\ jobs_table = <<>> /\ upserts = <<>> /\ yielded = <<>>
              /\ fetch_i = 0 /\ call_from = 0 /\ ended = "none" /\ searched = <<>>

DocIdle == doc = <<>> /\ doc_before = <<>> /\ engine_call = [op |-> "none"]

ParseIdle == response = <<>> /\ parse_pc = "idle" /\ parsed = <<>>

FetchIdle == fs_provider = "none" /\ fs_locs = 0 /\ fs_pc = "off" /\ fs_page = 0 /\ fs_log = <<>>

YieldIdle == yp_provider = "none" /\ yp_cfg = <<>> /\ yp_card = <<>> /\ yp_out = <<>>

StyleIdle == doc_styles = {} /\ style_log = <<>>

DashIdle == /\ search_running = FALSE /\ session_jobs = <<>> /\ th_args = <<>> /\ th_pc = "off"
            /\ th_kw = 0 /\ th_prov = 0 /\ th_seen = {} /\ th_yields = 0
            /\ stop_pressed = FALSE /\ th_late = FALSE /\ late_calls = 0 /\ late_jobs = 0 /\ th2_pc = "off"

ProcIdle == /\ profile = <<>> /\ jobs = <<>> /\ job_i = 0 /\ proc_pc = "idle"
            /\ processed = {} /\ applications = {} /\ tailored = <<>> /\ resume_out = <<>>
            /\ events = <<>> /\ create_call = [op |-> "none"]
            /\ job_log = <<>> /\ apply_calls = <<>>

\* =========================================================================
\* utils/rate_limit.py
\*
\* Units.  The code works on floats; the model is exact on a grid: a tick is
\* 1/capacity of a time-unit and tokens are counted in sixtieths, so that
\* elapsed * (capacity/60) tokens is exactly `elapsed ticks` sixtieths and
\* (n - tokens) * (60/capacity) time-units is exactly (60n - tokens) ticks.
\* =========================================================================
Sixty == 60

Min(a, b) == IF a <= b THEN a ELSE b

\* (mutant) refill at capacity/30 per time-unit
RefillDoubled(elapsed) == 2 * elapsed

\* refill = elapsed * (capacity / 60.0), in sixtieths of a token per tick
Refill(elapsed) == elapsed

\* (mutant) the refill is not capped at capacity
RefilledUncapped(tok, elapsed, cap) == tok + Refill(elapsed)

\* self.tokens = min(self.capacity, self.tokens + refill)
Refilled(tok, elapsed, cap) == Min(Sixty * cap, tok + Refill(elapsed))

\* (mutant) the sleep pays for all n tokens, whatever the bucket holds
SleepForWhole(n, tok) == Sixty * n

\* sleep_for = (n - self.tokens) * (60.0 / self.capacity), in ticks
SleepFor(n, tok) == Sixty * n - tok

\* the clock readings a call can see: the grid is coarsened to quarter minutes
ClockSteps(cap) == {0, 15 * cap, 30 * cap, 60 * cap, 90 * cap}

\* time.sleep may return late
Oversleep(cap) == {0, 15 * cap}

\* a call on the bucket touches nothing else
BucketFrame == UNCHANGED <<keyVars, locVars, gatherVars, docVars, procVars, parseVars, dashVars, styleVars, fetchVars, yieldVars>>

BucketIdle == capacity = 0 /\ tokens = 0 /\ last = 0 /\ now = 0 /\ born = 0
              /\ returned = 0 /\ lastCall = [kind |-> "none"]

\* TokenBucket.__init__
BucketInit ==
    /\ capacity \in 1..MaxCap
    /\ tokens = Sixty * capacity
    /\ now \in {0, 7}
    /\ last = now
    /\ born = now
    /\ returned = 0
    /\ lastCall = [kind |-> "none"]
    /\ KeyIdle /\ LocIdle /\ GatherIdle /\ DocIdle /\ ProcIdle /\ ParseIdle /\ DashIdle /\ StyleIdle /\ FetchIdle /\ YieldIdle

\* time passes between two calls (time.time() is taken not to run backwards)
Tick ==
    /\ \E d \in ClockSteps(capacity) \ {0} :
          /\ now + d - born <= MaxClock * Sixty * capacity
          /\ now' = now + d
    /\ UNCHANGED <<capacity, tokens, last, born, returned, lastCall>>
    /\ BucketFrame

\* TokenBucket.consume(n), the whole call including its sleep
Consume(n) ==
    /\ returned < MaxCalls
    /\ LET elapsed == now - last
           tok == Refilled(tokens, elapsed, capacity)
       IN IF tok >= Sixty * n
          THEN /\ tokens' = tok - Sixty * n
               /\ last' = now
               /\ now' = now
               /\ lastCall' = [kind |-> "pass", n |-> n, before |-> tokens,
                               elapsed |-> elapsed, slept |-> 0]
          ELSE \E extra \in Oversleep(capacity) :
               /\ tokens' = 0
               /\ now' = now + SleepFor(n, tok) + extra
               /\ last' = now'
               /\ lastCall' = [kind |-> "sleep", n |-> n, before |-> tokens,
                               elapsed |-> elapsed, slept |-> SleepFor(n, tok)]
    /\ returned' = returned + 1
    /\ UNCHANGED <<capacity, born>>
    /\ BucketFrame

ConsumeOne == Consume(1)
ConsumeMany == \E n \in 2..MaxN : Consume(n)

BucketNext == Tick \/ ConsumeOne \/ ConsumeMany

\* =========================================================================
\* utils/dedupe.py
\* =========================================================================
KeyChars == {"a", "A", " ", ":"}

\* SHA-256 hex digest of the UTF-8 bytes: taken as injective on the strings
\* of the model (no collision is known), and tagged so that a digest is not
\* the string it was made from
hash_text(s) == [sha256 |-> s]

Sep == <<":", ":">>

\* (mutant) the location is lower-cased but not stripped
job_key_unstripped(title, company, loc) ==
    hash_text(Lower(Strip(title)) \o Sep \o Lower(Strip(company)) \o Sep \o Lower(loc))

\* base = f"{title.strip().lower()}::{company.strip().lower()}::{location.strip().lower()}"
job_key(title, company, loc) ==
    hash_text(Lower(Strip(title)) \o Sep \o Lower(Strip(company)) \o Sep \o Lower(Strip(loc)))

KeyFrame == UNCHANGED <<bucketVars, locVars, gatherVars, docVars, procVars, parseVars, dashVars, styleVars, fetchVars, yieldVars>>

Triples ==
    {t \in SeqsUpTo(KeyChars, MaxChars) \X SeqsUpTo(KeyChars, MaxChars) \X SeqsUpTo(KeyChars, MaxChars) :
        Len(t[1]) + Len(t[2]) + Len(t[3]) <= MaxChars}

KeyInit ==
    /\ triple \in Triples
    /\ other = triple
    /\ edits = <<>>
    /\ keys = <<>>
    /\ BucketIdle /\ LocIdle /\ GatherIdle /\ DocIdle /\ ProcIdle /\ ParseIdle /\ DashIdle /\ StyleIdle /\ FetchIdle /\ YieldIdle

\* the other listing spells one letter of a component in the other case
Recase ==
    /\ keys = <<>> /\ Len(edits) < MaxEdits
    /\ \E i \in 1..3 : \E k \in 1..Len(other[i]) :
          LET c == other[i][k]
              d == IF LowerChar(c) # c THEN LowerChar(c) ELSE UpperChar(c)
          IN /\ d # c
             /\ other' = [other EXCEPT ![i][k] = d]
    /\ edits' = Append(edits, "case")
    /\ UNCHANGED <<triple, keys>>
    /\ KeyFrame

\* the other listing has whitespace in front of or behind a component
Pad ==
    /\ keys = <<>> /\ Len(edits) < MaxEdits
    /\ \E i \in 1..3 : \E front \in BOOLEAN :
          other' = [other EXCEPT ![i] = IF front THEN <<" ">> \o @ ELSE @ \o <<" ">>]
    /\ edits' = Append(edits, "space")
    /\ UNCHANGED <<triple, keys>>
    /\ KeyFrame

\* the other listing differs in a character, or has whitespace inside a component
Reword ==
    /\ keys = <<>> /\ Len(edits) < MaxEdits
    /\ \E i \in 1..3 : \E k \in 1..Len(other[i]) : \E c \in KeyChars :
          /\ LowerChar(c) # LowerChar(other[i][k])
          /\ other' = [other EXCEPT ![i][k] = c]
    /\ edits' = Append(edits, "word")
    /\ UNCHANGED <<triple, keys>>
    /\ KeyFrame

\* the other listing cuts the same text into title, company and location at
\* another place: the last character of a component opens the next one
\* (followed as the first difference between the two listings only)
Recut ==
    /\ keys = <<>> /\ edits = <<>>
    /\ \E i \in 1..2 :
          /\ other[i] # <<>>
          /\ other' = [other EXCEPT ![i] = SubSeq(@, 1, Len(@) - 1),
                                    ![i + 1] = <<other[i][Len(other[i])]>> \o @]
    /\ edits' = Append(edits, "cut")
    /\ UNCHANGED <<triple, keys>>
    /\ KeyFrame

\* both listings get their job_id
CallJobKey ==
    /\ keys = <<>>
    /\ keys' = <<job_key(triple[1], triple[2], triple[3]), job_key(other[1], other[2], other[3])>>
    /\ UNCHANGED <<triple, other, edits>>
    /\ KeyFrame

KeyNext == Recase \/ Pad \/ Reword \/ Recut \/ CallJobKey

\* -------------------------------------------------------------------- C2
\* C2: two triples whose components are equal up to letter case and
\* leading/trailing whitespace get the same key (here: the second triple was
\* made from the first by re-casing letters and padding components only).
C2_KeyIgnoresCaseAndPadding ==
    (keys # <<>> /\ \A k \in 1..Len(edits) : edits[k] \in {"case", "space"})
        => keys[1] = keys[2]

\* two different spellings, one re-cased and one padded, with one key
C2_Witness ==
    /\ keys # <<>> /\ keys[1] = keys[2]
    /\ edits = <<"case", "space">>
    /\ other # triple

\* =========================================================================
\* utils/location_filter.py
\* =========================================================================
REMOTE == <<"r", "e", "m", "o", "t", "e">>

\* (location or "")
OrEmpty(x) == IF x = None THEN <<>> ELSE x

\* (mutant) the cities are tried before the "remote" test
is_location_ok_cities_first(loc_, cities_, countries_, rem, rem_global) ==
    LET loc == Lower(OrEmpty(loc_))
    IN IF \E k \in 1..Len(cities_) : Contains(loc, Lower(cities_[k])) THEN TRUE
       ELSE IF Contains(loc, REMOTE) THEN (IF rem \/ rem_global THEN TRUE ELSE FALSE)
       ELSE IF \E k \in 1..Len(countries_) : Contains(loc, Lower(countries_[k])) THEN TRUE
       ELSE FALSE

\* is_location_ok: the first return reached wins
is_location_ok(loc_, cities_, countries_, rem, rem_global) ==
    LET loc == Lower(OrEmpty(loc_))
    IN IF Contains(loc, REMOTE) THEN (IF rem \/ rem_global THEN TRUE ELSE FALSE)
       ELSE IF \E k \in 1..Len(cities_) : Contains(loc, Lower(cities_[k])) THEN TRUE
       ELSE IF \E k \in 1..Len(countries_) : Contains(loc, Lower(countries_[k])) THEN TRUE
       ELSE FALSE

\* normalize_location
normalize_location(loc_) == Strip(OrEmpty(loc_))

LocFrame == UNCHANGED <<bucketVars, keyVars, gatherVars, docVars, procVars, parseVars, dashVars, styleVars, fetchVars, yieldVars>>

\* what a scraped location text is put together from
LocFrags == {"remote", "Remote", "REM", "ote", "ville", "Goa", "India", ", "}
CityNames == {"", "Ville", "goa"}
CountryNames == {"India"}

Locations == {None} \cup {Concat([k \in 1..Len(fs) |-> Str(fs[k])]) : fs \in SeqsUpTo(LocFrags, MaxFrags)}

Places(names) == {[k \in 1..Len(ns) |-> Str(ns[k])] : ns \in SeqsUpTo(names, MaxPlaces)}

LocInit ==
    /\ location \in Locations
    /\ cities \in Places(CityNames)
    /\ countries \in Places(CountryNames)
    /\ remote_ok \in BOOLEAN
    /\ remote_global_ok \in BOOLEAN
    /\ loc_result = <<>>
    /\ BucketIdle /\ KeyIdle /\ GatherIdle /\ DocIdle /\ ProcIdle /\ ParseIdle /\ DashIdle /\ StyleIdle /\ FetchIdle /\ YieldIdle

CallIsLocationOk ==
    /\ loc_result = <<>>
    /\ loc_result' = <<is_location_ok(location, cities, countries, remote_ok, remote_global_ok)>>
    /\ UNCHANGED <<location, cities, countries, remote_ok, remote_global_ok>>
    /\ LocFrame

LocNext == CallIsLocationOk

\* -------------------------------------------------------------------- C3
\* the letters of two strings agree when case is ignored
SameLetters(s, t) ==
    /\ Len(s) = Len(t)
    /\ \A i \in 1..Len(s) : s[i] = t[i] \/ UpperChar(s[i]) = t[i] \/ s[i] = UpperChar(t[i])

\* needle occurs in hay, case ignored
Occurs(hay, needle) ==
    \E i \in 0..(Len(hay) - Len(needle)) : SameLetters(SubSeq(hay, i + 1, i + Len(needle)), needle)

\* C3: is_location_ok returns a boolean for every input; when the location
\* contains "remote" (in any case, also inside a word) the result is
\* remote_ok OR remote_global_ok whatever the cities and countries; otherwise
\* it is true iff some city or country occurs in the location.
C3_LocationDecisionOrder ==
    loc_result # <<>> =>
        LET loc == IF location = None THEN <<>> ELSE location
        IN /\ loc_result[1] \in BOOLEAN
           /\ IF Occurs(loc, REMOTE)
              THEN loc_result[1] = (remote_ok \/ remote_global_ok)
              ELSE loc_result[1] = (\/ \E k \in 1..Len(cities) : Occurs(loc, cities[k])
                                 \/ \E k \in 1..Len(countries) : Occurs(loc, countries[k]))

\* "Remoteville" is refused with both remote flags off although "Ville" is a city
C3_Witness ==
    /\ location = <<"R", "e", "m", "o", "t", "e">> \o <<"v", "i", "l", "l", "e">>
    /\ cities = <<<<"V", "i", "l", "l", "e">>>>
    /\ ~remote_ok /\ ~remote_global_ok
    /\ loc_result = <<FALSE>>

\* =========================================================================
\* main.py gather_jobs, storage/db.py upsert_job
\* =========================================================================
JobIds == 1..MaxIds

\* providers in the order gather_jobs appends them
ProviderOrder == <<"indeed", "wellfound", "internshala", "linkedin">>

\* the enabled providers, in that order
RECURSIVE Enabled(_, _)
Enabled(order, on) ==
    IF order = <<>> THEN <<>>
    ELSE (IF Head(order) \in on THEN <<Head(order)>> ELSE <<>>) \o Enabled(Tail(order), on)

\* a JobPost: listings with one job_id may still differ in spelling and source
JobPosts(src) == [job_id : JobIds, title : {"ml engineer", "ML Engineer"}, source : {src}]

\* a row of table jobs (id is the key of jobs_table)
Row(job) == [title |-> job.title, source |-> job.source]
OldRow == [title |-> "ml engineer", source |-> "earlier run"]

\* (mutant) INSERT OR REPLACE
upsert_job_replace(table, job) == [table EXCEPT ![job.job_id] = <<Row(job)>>]

\* INSERT OR IGNORE INTO jobs: a stored row wins
upsert_job(table, job) ==
    IF table[job.job_id] # <<>> THEN table ELSE [table EXCEPT ![job.job_id] = <<Row(job)>>]

\* job.job_id in seen_ids
already_seen(seen, job) == job.job_id \in seen

\* (mutant) the id is never remembered
seen_add_forgotten(seen, job) == seen

\* seen_ids.add(job.job_id)
seen_add(seen, job) == seen \cup {job.job_id}

GatherFrame == UNCHANGED <<bucketVars, keyVars, locVars, docVars, procVars, parseVars, dashVars, styleVars, fetchVars, yieldVars>>

\* gather_jobs up to line 36; rows of earlier runs may be stored already
GatherInit ==
    /\ keywords = [k \in 1..MaxKeywords |-> k]
    /\ providers \in {Enabled(ProviderOrder, on) :
                         on \in {{}, {"indeed"}, {"wellfound", "linkedin"}}}
    /\ kw_i = 1 /\ prov_i = 1
    /\ gather_pc = "next"
    /\ results = <<>> /\ seen_ids = {}
    /\ jobs_table \in {[id \in JobIds |-> IF id \in stored THEN <<OldRow>> ELSE <<>>] : stored \in {{}, {1}}}
    /\ upserts = <<>> /\ yielded = <<>>
    /\ fetch_i = 0 /\ call_from = 0 /\ ended = "none" /\ searched = <<>>
    /\ BucketIdle /\ KeyIdle /\ LocIdle /\ DocIdle /\ ProcIdle /\ ParseIdle /\ DashIdle /\ StyleIdle /\ FetchIdle /\ YieldIdle

\* the loop position after the current provider call
Advance ==
    IF prov_i < Len(providers)
    THEN kw_i' = kw_i /\ prov_i' = prov_i + 1
    ELSE kw_i' = kw_i + 1 /\ prov_i' = 1

\* the fetches one call of a provider makes: indeed reads three pages
\* (indeed.py line 29), the others one page (linkedin: one per location, and
\* there is one location)
Fetches(src) == IF src = "indeed" THEN 3 ELSE 1

\* line 40: one more (keyword, provider) pair is searched
CallBegins ==
    /\ call_from' = Len(results)
    /\ searched' = Append(searched, <<keywords[kw_i], providers[prov_i]>>)

\* line 41: fn(kw, locations) is called and iterated
SearchProvider ==
    /\ gather_pc = "next"
    /\ kw_i <= Len(keywords) /\ prov_i <= Len(providers)
    /\ gather_pc' = "iter"
    /\ CallBegins /\ fetch_i' = 1 /\ ended' = "none"
    /\ UNCHANGED <<keywords, providers, kw_i, prov_i, results, seen_ids, jobs_table, upserts, yielded>>
    /\ GatherFrame

\* line 41, and the handler inside the provider (indeed.py lines 30-34,
\* wellfound.py 29-33, internshala.py 25-29, linkedin.py lines 106-110): the
\* first fetch raises, the provider logs it and yields nothing
FirstFetchFails ==
    /\ gather_pc = "next"
    /\ kw_i <= Len(keywords) /\ prov_i <= Len(providers)
    /\ CallBegins /\ fetch_i' = 1 /\ ended' = "fetch_error"
    /\ Advance
    /\ UNCHANGED <<keywords, providers, gather_pc, results, seen_ids, jobs_table, upserts, yielded>>
    /\ GatherFrame

\* indeed.py lines 29-31: the cards of a page are done, the next page is fetched
NextPage ==
    /\ gather_pc = "iter"
    /\ fetch_i < Fetches(providers[prov_i])
    /\ fetch_i' = fetch_i + 1
    /\ UNCHANGED <<keywords, providers, kw_i, prov_i, gather_pc, results, seen_ids, jobs_table,
                   upserts, yielded, call_from, ended, searched>>
    /\ GatherFrame

\* indeed.py lines 30-34: the fetch of a later page raises; the provider logs
\* it and breaks, which ends the provider's sequence
PageFetchFails ==
    /\ gather_pc = "iter"
    /\ fetch_i < Fetches(providers[prov_i])
    /\ gather_pc' = "next"
    /\ fetch_i' = fetch_i + 1 /\ ended' = "fetch_error"
    /\ Advance
    /\ UNCHANGED <<keywords, providers, results, seen_ids, jobs_table, upserts, yielded, call_from, searched>>
    /\ GatherFrame

\* lines 41-46: the provider yields a JobPost, and the loop body runs on it
ProviderYields ==
    /\ gather_pc = "iter"
    /\ Len(yielded) < MaxYield
    /\ \E job \in JobPosts(providers[prov_i]) :
          /\ yielded' = Append(yielded, job)
          /\ IF already_seen(seen_ids, job)
             THEN UNCHANGED <<seen_ids, jobs_table, upserts, results>>
             ELSE /\ seen_ids' = seen_add(seen_ids, job)
                  /\ jobs_table' = upsert_job(jobs_table, job)
                  /\ upserts' = Append(upserts, job.job_id)
                  /\ results' = Append(results, job)
    /\ UNCHANGED <<keywords, providers, kw_i, prov_i, gather_pc, fetch_i, call_from, ended, searched>>
    /\ GatherFrame

\* the provider's sequence ends
ProviderExhausted ==
    /\ gather_pc = "iter"
    /\ fetch_i = Fetches(providers[prov_i])
    /\ gather_pc' = "next"
    /\ ended' = "exhausted"
    /\ Advance
    /\ UNCHANGED <<keywords, providers, results, seen_ids, jobs_table, upserts, yielded, fetch_i, call_from, searched>>
    /\ GatherFrame

\* lines 47-48: the provider raises while it is iterated; logged, next provider
ProviderRaises ==
    /\ gather_pc = "iter"
    /\ gather_pc' = "next"
    /\ ended' = "raised"
    /\ Advance
    /\ UNCHANGED <<keywords, providers, results, seen_ids, jobs_table, upserts, yielded, fetch_i, call_from, searched>>
    /\ GatherFrame

\* line 49: return results
GatherReturns ==
    /\ gather_pc = "next"
    /\ kw_i > Len(keywords) \/ providers = <<>>
    /\ gather_pc' = "done"
    /\ UNCHANGED <<keywords, providers, kw_i, prov_i, results, seen_ids, jobs_table, upserts, yielded,
                   fetch_i, call_from, ended, searched>>
    /\ GatherFrame

GatherNext ==
    \/ SearchProvider \/ FirstFetchFails \/ ProviderYields \/ NextPage \/ PageFetchFails
    \/ ProviderExhausted \/ ProviderRaises \/ GatherReturns

\* -------------------------------------------------------------------- C1
\* the first JobPost of every job_id, in yield order
RECURSIVE FirstOfEachId(_, _)
FirstOfEachId(js, ids) ==
    IF js = <<>> THEN <<>>
    ELSE IF Head(js).job_id \in ids THEN FirstOfEachId(Tail(js), ids)
    ELSE <<Head(js)>> \o FirstOfEachId(Tail(js), ids \cup {Head(js).job_id})

FetchFrame == UNCHANGED <<bucketVars, keyVars, locVars, gatherVars, docVars, procVars, parseVars, dashVars, styleVars, yieldVars>>

\* the providers that have a module-level TokenBucket (line 25 of indeed.py,
\* 14 of wellfound.py, 13 of internshala.py); linkedin.py has none
Bucketed == {"indeed", "wellfound", "internshala"}

\* bucket.consume() of the provider's bucket
Consumed(provider) == [what |-> "consume", provider |-> provider, page |-> "", status |-> 0]

\* a request sent out: fetch_html(url) or session.get(url)
Got(provider, page, status) == [what |-> "get", provider |-> provider, page |-> page, status |-> status]

\* _fetch of indeed.py, wellfound.py and internshala.py: consume, then fetch_html
fetch(provider, status) == <<Consumed(provider), Got(provider, "listing", status)>>

\* the trailing requests of the log that were answered 429
RECURSIVE Trailing429(_)
Trailing429(log) ==
    IF log = <<>> \/ log[Len(log)].status # 429 THEN 0 ELSE 1 + Trailing429(SubSeq(log, 1, Len(log) - 1))

FetchInit ==
    /\ fs_provider \in {"indeed", "wellfound", "internshala", "linkedin"}
    /\ fs_locs \in 1..MaxPlaces
    /\ fs_pc = "start"
    /\ fs_page = 0
    /\ fs_log = <<>>
    /\ BucketIdle /\ KeyIdle /\ LocIdle /\ GatherIdle /\ DocIdle /\ ProcIdle /\ ParseIdle /\ DashIdle /\ StyleIdle /\ YieldIdle

\* indeed.py lines 29-34 (up to three pages), wellfound.py lines 29-33,
\* internshala.py lines 25-29: the listing page is fetched through _fetch; a
\* fetch that raises ends the search
FetchListing ==
    /\ fs_provider \in Bucketed /\ fs_pc = "start"
    /\ \E status \in {200, 500} :
          /\ fs_log' = fs_log \o fetch(fs_provider, status)
          /\ fs_pc' = IF status # 200 THEN "done"
                      ELSE IF fs_provider = "internshala" THEN "cards"
                      ELSE IF fs_provider = "indeed" /\ fs_page + 1 < Fetches("indeed") THEN "start"
                      ELSE "done"
          /\ fs_page' = IF fs_provider = "indeed" THEN fs_page + 1 ELSE 0
    /\ UNCHANGED <<fs_provider, fs_locs>>
    /\ FetchFrame

\* internshala.py lines 32-68, one card: when the card names no company and
\* has a link, line 51 fetches the detail page with fetch_html
InternshalaCard ==
    /\ fs_provider = "internshala" /\ fs_pc = "cards" /\ fs_page < MaxCards
    /\ \E company_unknown \in BOOLEAN : \E status \in {200, 500} :
          fs_log' = IF company_unknown THEN Append(fs_log, Got("internshala", "detail", status)) ELSE fs_log
    /\ fs_page' = fs_page + 1
    /\ UNCHANGED <<fs_provider, fs_locs, fs_pc>>
    /\ FetchFrame

\* the cards are used up
InternshalaEnds ==
    /\ fs_provider = "internshala" /\ fs_pc = "cards"
    /\ fs_pc' = "done"
    /\ UNCHANGED <<fs_provider, fs_locs, fs_page, fs_log>>
    /\ FetchFrame

\* linkedin.py lines 99-102, linkedin_login: session.get of the login page and,
\* with credentials and a CSRF token, session.post of the form
LinkedinLogin ==
    /\ fs_provider = "linkedin" /\ fs_pc = "start"
    /\ \E posted \in BOOLEAN :
          fs_log' = <<Got("linkedin", "login", 200)>> \o (IF posted THEN <<Got("linkedin", "login", 200)>> ELSE <<>>)
    /\ fs_pc' = "pages"
    /\ UNCHANGED <<fs_provider, fs_locs, fs_page>>
    /\ FetchFrame

\* linkedin.py search_jobs lines 159-167: session.get of a listing page; 429 is
\* retried up to three times, 200 goes on to the next page
LinkedinGet ==
    /\ fs_provider = "linkedin" /\ fs_pc = "pages"
    /\ Len(fs_log) < MaxGets /\ Trailing429(fs_log) < 3
    /\ \E status \in {200, 429, 500} :
          /\ fs_log' = Append(fs_log, Got("linkedin", "listing", status))
          /\ fs_page' = IF status = 500 THEN fs_page + 1 ELSE fs_page
          /\ fs_pc' = IF status = 500 /\ fs_page + 1 = fs_locs THEN "done" ELSE "pages"
    /\ UNCHANGED <<fs_provider, fs_locs>>
    /\ FetchFrame

\* lines 168-171 after the third 429, lines 145 and 193-196: the pages of one
\* location end, the next location of the loop of line 105 begins
LinkedinLocationEnds ==
    /\ fs_provider = "linkedin" /\ fs_pc = "pages"
    /\ fs_log[Len(fs_log)].page = "listing"
    /\ fs_page' = fs_page + 1
    /\ fs_pc' = IF fs_page + 1 = fs_locs THEN "done" ELSE "pages"
    /\ fs_log' = Append(fs_log, [what |-> "next", provider |-> "linkedin", page |-> "", status |-> 0])
    /\ UNCHANGED <<fs_provider, fs_locs>>
    /\ FetchFrame

FetchNext ==
    FetchListing \/ InternshalaCard \/ InternshalaEnds \/ LinkedinLogin \/ LinkedinGet \/ LinkedinLocationEnds

\* =========================================================================
\* providers/*.py: from a card of a listing page to the JobPost yielded
\* =========================================================================
YieldFrame == UNCHANGED <<bucketVars, keyVars, locVars, gatherVars, docVars, procVars, parseVars, dashVars, styleVars, fetchVars>>

UNKNOWN == <<"U", "n", "k", "n", "o", "w", "n">>

\* Python's x or d
Or(x, d) == IF x = None \/ x = <<>> THEN d ELSE x

\* el.get_text(strip=True) if el else d; a missing element is None
TextOr(el, d) == IF el = None THEN d ELSE Strip(el)

\* the filter every provider applies before it yields
location_ok(loc, c) == is_location_ok(loc, c.cities, c.countries, c.remote_ok, c.remote_global_ok)

\* JobPost(title, company, location, ..., source, job_id): <<>> for a card the
\* filter skipped
Post(title, company, loc, src, jid, c) ==
    IF location_ok(loc, c)
    THEN <<[title |-> title, company |-> company, location |-> loc, source |-> src, job_id |-> jid]>>
    ELSE <<>>

\* indeed.py lines 37-49
indeed_card(card, c) ==
    LET title == Or(TextOr(card.title, None), UNKNOWN)
        company == TextOr(card.company, UNKNOWN)
        loc == normalize_location(TextOr(card.loc, <<>>))
    IN Post(title, company, loc, "indeed", job_key(title, company, loc), c)

\* wellfound.py lines 36-54: a card without title or company is split at the
\* separator; the key is made of "unknown" where the JobPost says "Unknown"
wellfound_card(card, c) ==
    LET split == (Or(card.title, <<>>) = <<>> \/ Or(card.company, <<>>) = <<>>) /\ Len(card.pieces) >= 2
        title == IF split THEN card.pieces[1] ELSE card.title
        company == IF split THEN card.pieces[2] ELSE card.company
        loc == normalize_location(IF card.loc = None THEN <<>> ELSE Strip(card.loc))
    IN Post(Or(title, UNKNOWN), Or(company, UNKNOWN), loc, "wellfound",
            job_key(Or(title, Lower(UNKNOWN)), Or(company, Lower(UNKNOWN)), loc), c)

\* (mutant) the location filter runs on the listing's location, before the
\* detail page replaces it
internshala_card_filtered_early(card, c) ==
    LET title0 == TextOr(card.title, <<"I", "n", "t", "e", "r", "n", "s", "h", "i", "p">>)
        company0 == TextOr(card.company, UNKNOWN)
        loc0 == normalize_location(TextOr(card.loc, <<"R", "e", "m", "o", "t", "e">>))
        detailed == company0 \in {UNKNOWN, <<>>} /\ card.detail # <<>>
        title == IF detailed THEN Or(TextOr(card.detail[1].title, None), title0) ELSE title0
        company == IF detailed THEN Or(TextOr(card.detail[1].company, None), company0) ELSE company0
        loc == IF detailed /\ card.detail[1].loc # None
               THEN Or(normalize_location(Strip(card.detail[1].loc)), loc0) ELSE loc0
    IN IF location_ok(loc0, c)
       THEN <<[title |-> title, company |-> company, location |-> loc, source |-> "internshala",
               job_id |-> job_key(title, company, loc)]>>
       ELSE <<>>

\* internshala.py lines 32-67: card.detail is the detail page line 51 fetched,
\* <<>> when the card has no link or the fetch raised
internshala_card(card, c) ==
    LET title0 == TextOr(card.title, <<"I", "n", "t", "e", "r", "n", "s", "h", "i", "p">>)
        company0 == TextOr(card.company, UNKNOWN)
        loc0 == normalize_location(TextOr(card.loc, <<"R", "e", "m", "o", "t", "e">>))
        detailed == company0 \in {UNKNOWN, <<>>} /\ card.detail # <<>>
        title == IF detailed THEN Or(TextOr(card.detail[1].title, None), title0) ELSE title0
        company == IF detailed THEN Or(TextOr(card.detail[1].company, None), company0) ELSE company0
        loc == IF detailed /\ card.detail[1].loc # None
               THEN Or(normalize_location(Strip(card.detail[1].loc)), loc0) ELSE loc0
    IN Post(title, company, loc, "internshala", job_key(title, company, loc), c)

\* linkedin.py search_jobs lines 181-192 and search lines 115-130: card.searched
\* is the location the search was made for
linkedin_item(card, c) ==
    LET loc_text == TextOr(card.loc, None)
        item_location == IF Or(loc_text, <<>>) # <<>> THEN normalize_location(loc_text)
                         ELSE normalize_location(card.searched)
        title == Or(TextOr(card.title, None), UNKNOWN)
        company == Or(TextOr(card.company, None), UNKNOWN)
        loc == Or(item_location, normalize_location(card.searched))
    IN Post(title, company, loc, "linkedin", job_key(title, company, loc), c)

\* what the elements of a card can hold; None is an element that is not there
CardTitles == {None, <<>>, <<"D", "e", "v">>, <<" ", "M", "L">>}
CardCompanies == {None, <<>>, <<"A", "c", "m", "e">>}
CardLocs == {None, <<"G", "o", "a">>, <<" ", "R", "e", "m", "o", "t", "e">>, <<"O", "s", "l", "o">>}
CardDetails == {<<>>} \cup {<<[title |-> t, company |-> co, loc |-> l]>> :
                              t \in {None, <<"D", "e", "v">>}, co \in {None, <<"A", "c", "m", "e">>},
                              l \in {None, <<"G", "o", "a">>, <<"O", "s", "l", "o">>}}

Cards(provider) ==
    [title : CardTitles, company : CardCompanies, loc : CardLocs,
     pieces : IF provider = "wellfound" THEN {<<>>, <<<<"Q", "A">>, <<"A", "c", "m", "e">>>>} ELSE {<<>>},
     detail : IF provider = "internshala" THEN CardDetails ELSE {<<>>},
     searched : IF provider = "linkedin" THEN {<<"G", "o", "a">>, <<"O", "s", "l", "o">>} ELSE {<<>>}]

YieldInit ==
    /\ yp_provider \in {"indeed", "wellfound", "internshala", "linkedin"}
    /\ yp_cfg \in [cities : {<<>>, <<<<"g", "o", "a">>>>}, countries : {<<>>}, remote_ok : BOOLEAN,
                   remote_global_ok : {FALSE}]
    /\ yp_card = <<>> /\ yp_out = <<>>
    /\ BucketIdle /\ KeyIdle /\ LocIdle /\ GatherIdle /\ DocIdle /\ ProcIdle /\ ParseIdle /\ DashIdle /\ StyleIdle /\ FetchIdle

\* indeed.py lines 37-49: the loop body runs on a card
IndeedCardSeen ==
    /\ yp_provider = "indeed" /\ yp_card = <<>>
    /\ \E card \in Cards("indeed") :
          /\ yp_card' = <<card>>
          /\ yp_out' = indeed_card(card, yp_cfg)
    /\ UNCHANGED <<yp_provider, yp_cfg>>
    /\ YieldFrame

\* wellfound.py lines 36-54: the loop body runs on a card
WellfoundCardSeen ==
    /\ yp_provider = "wellfound" /\ yp_card = <<>>
    /\ \E card \in Cards("wellfound") :
          /\ yp_card' = <<card>>
          /\ yp_out' = wellfound_card(card, yp_cfg)
    /\ UNCHANGED <<yp_provider, yp_cfg>>
    /\ YieldFrame

\* internshala.py lines 32-67: the loop body runs on a card
InternshalaCardSeen ==
    /\ yp_provider = "internshala" /\ yp_card = <<>>
    /\ \E card \in Cards("internshala") :
          /\ yp_card' = <<card>>
          /\ yp_out' = internshala_card(card, yp_cfg)
    /\ UNCHANGED <<yp_provider, yp_cfg>>
    /\ YieldFrame

\* linkedin.py lines 113-130: the loop body runs on an item of search_jobs
LinkedinItemSeen ==
    /\ yp_provider = "linkedin" /\ yp_card = <<>>
    /\ \E card \in Cards("linkedin") :
          /\ yp_card' = <<card>>
          /\ yp_out' = linkedin_item(card, yp_cfg)
    /\ UNCHANGED <<yp_provider, yp_cfg>>
    /\ YieldFrame

YieldNext == IndeedCardSeen \/ WellfoundCardSeen \/ InternshalaCardSeen \/ LinkedinItemSeen

\* =========================================================================
\* streamlit_app.py: main (one script run per user action) and
\* _run_search_thread, which runs beside it
\* =========================================================================
DashFrame == UNCHANGED <<bucketVars, keyVars, locVars, gatherVars, docVars, procVars, parseVars, styleVars, fetchVars, yieldVars>>

\* lines 103-108: a fresh session
DashInit ==
    /\ search_running = FALSE /\ session_jobs = <<>>
    /\ th_args \in {[keywords |-> [k \in 1..n |-> k], provider_list |-> Enabled(ProviderOrder, on)] :
                        n \in 1..MaxKeywords, on \in {{"indeed"}, {"wellfound", "linkedin"}}}
    /\ th_pc = "idle"
    /\ th_kw = 0 /\ th_prov = 0 /\ th_seen = {} /\ th_yields = 0
    /\ stop_pressed = FALSE /\ th_late = FALSE /\ late_calls = 0 /\ late_jobs = 0 /\ th2_pc = "idle"
    /\ BucketIdle /\ KeyIdle /\ LocIdle /\ GatherIdle /\ DocIdle /\ ProcIdle /\ ParseIdle /\ StyleIdle /\ FetchIdle /\ YieldIdle

\* lines 137-149: Start Search is pressed; the thread is created and started
StartSearch ==
    /\ ~search_running /\ th_pc = "idle"
    /\ session_jobs' = <<>>
    /\ search_running' = TRUE
    /\ th_pc' = "next" /\ th_kw' = 1 /\ th_prov' = 1
    /\ UNCHANGED <<th_args, th_seen, th_yields, stop_pressed, th_late, late_calls, late_jobs, th2_pc>>
    /\ DashFrame

\* lines 150-152: Stop is pressed while the flag is set
PressStop ==
    /\ search_running
    /\ search_running' = FALSE
    /\ stop_pressed' = TRUE
    /\ UNCHANGED <<session_jobs, th_args, th_pc, th_kw, th_prov, th_seen, th_yields, th_late, late_calls, late_jobs, th2_pc>>
    /\ DashFrame

\* lines 80-84: the thread takes the next (keyword, provider) pair and calls
\* the provider; search_running is not read
ThreadSearch ==
    /\ th_pc = "next"
    /\ th_kw <= Len(th_args.keywords)
    /\ th_pc' = "iter"
    /\ th_late' = stop_pressed
    /\ late_calls' = late_calls + (IF stop_pressed THEN 1 ELSE 0)
    /\ UNCHANGED <<search_running, session_jobs, th_args, th_kw, th_prov, th_seen, th_yields, stop_pressed, late_jobs, th2_pc>>
    /\ DashFrame

\* lines 84-91: the provider yields a job and the loop body runs on it
ThreadYields ==
    /\ th_pc = "iter"
    /\ th_yields < MaxYield
    /\ th_yields' = th_yields + 1
    /\ \E id \in JobIds :
          IF id \in th_seen
          THEN UNCHANGED <<th_seen, session_jobs, late_jobs>>
          ELSE /\ th_seen' = th_seen \cup {id}
               /\ session_jobs' = Append(session_jobs, id)
               /\ late_jobs' = late_jobs + (IF th_late THEN 1 ELSE 0)
    /\ UNCHANGED <<search_running, th_args, th_pc, th_kw, th_prov, stop_pressed, th_late, late_calls, th2_pc>>
    /\ DashFrame

\* lines 84 and 92-93: the provider's sequence ends, or it raises and the
\* error is logged; the loops go on
ThreadCallEnds ==
    /\ th_pc = "iter"
    /\ th_pc' = "next"
    /\ IF th_prov < Len(th_args.provider_list)
       THEN th_kw' = th_kw /\ th_prov' = th_prov + 1
       ELSE th_kw' = th_kw + 1 /\ th_prov' = 1
    /\ UNCHANGED <<search_running, session_jobs, th_args, th_seen, th_yields, stop_pressed, th_late, late_calls, late_jobs, th2_pc>>
    /\ DashFrame

\* line 94, reached when the loops are over
ThreadFinishes ==
    /\ th_pc = "next"
    /\ th_kw > Len(th_args.keywords)
    /\ search_running' = FALSE
    /\ th_pc' = "finished"
    /\ UNCHANGED <<session_jobs, th_args, th_kw, th_prov, th_seen, th_yields, stop_pressed, th_late, late_calls, late_jobs, th2_pc>>
    /\ DashFrame

\* lines 125 and 137-149 while the first thread is still in its loops: Stop
\* has cleared search_running, so the Start button is enabled again and
\* line 137 lets a second thread be created; its loops are taken as one step
StartSecond ==
    /\ ~search_running /\ th_pc \in {"next", "iter"} /\ th2_pc = "idle"
    /\ session_jobs' = <<>>
    /\ search_running' = TRUE
    /\ th2_pc' = "running"
    /\ UNCHANGED <<th_args, th_pc, th_kw, th_prov, th_seen, th_yields, stop_pressed, th_late, late_calls, late_jobs>>
    /\ DashFrame

\* line 94 in the second thread
SecondFinishes ==
    /\ th2_pc = "running"
    /\ search_running' = FALSE
    /\ th2_pc' = "finished"
    /\ UNCHANGED <<session_jobs, th_args, th_pc, th_kw, th_prov, th_seen, th_yields, stop_pressed, th_late, late_calls, late_jobs>>
    /\ DashFrame

DashNext ==
    \/ StartSearch \/ PressStop \/ ThreadSearch \/ ThreadYields \/ ThreadCallEnds \/ ThreadFinishes
    \/ StartSecond \/ SecondFinishes

\* =========================================================================
\* generators/services/resume_tailor.py: the template engine on a Document
\*
\* The body of a document is the sequence of its child elements.  An element
\* is [tag, id, text, style]: tag is the element's qualified name as lxml
\* holds it ("{namespace}local"), id tells elements apart, text is the
\* paragraph text and style the w:pStyle value (empty when there is none).
\* =========================================================================
W_NS == "{http://schemas.openxmlformats.org/wordprocessingml/2006/main}"
W_P == [ns |-> W_NS, local |-> "p"]
W_TBL == [ns |-> W_NS, local |-> "tbl"]

Para(id, text, style) == [tag |-> W_P, id |-> id, text |-> text, style |-> style]

\* (mutant) the prefix w: is resolved to the namespace, as docx.oxml.ns.qn does
TagOfQualified(name) ==
    IF name = "w:p" THEN W_P ELSE IF name = "w:tbl" THEN W_TBL ELSE [ns |-> "", local |-> name]

\* lxml reads a tag filter as "{namespace}local"; a name without braces is a
\* local name in no namespace, whatever colon it has
TagOf(name) == [ns |-> "", local |-> name]

RECURSIVE SelectTag(_, _)
SelectTag(elems, tag) ==
    IF elems = <<>> THEN <<>>
    ELSE (IF Head(elems).tag = tag THEN <<Head(elems)>> ELSE <<>>) \o SelectTag(Tail(elems), tag)

\* parent.iterchildren(name)
iterchildren(body, name) == SelectTag(body, TagOf(name))

\* doc.paragraphs
paragraphs(body) == SelectTag(body, W_P)

RECURSIVE RemoveIds(_, _)
RemoveIds(elems, ids) ==
    IF elems = <<>> THEN <<>>
    ELSE (IF Head(elems).id \in ids THEN <<>> ELSE <<Head(elems)>>) \o RemoveIds(Tail(elems), ids)

\* lines 593-598: the style value says heading, title or subtitle
is_heading(p) ==
    /\ p.style # <<>>
    /\ \/ StartsWith(Lower(p.style), <<"h", "e", "a", "d", "i", "n", "g">>)
       \/ Lower(p.style) \in {<<"t", "i", "t", "l", "e">>, <<"s", "u", "b", "t", "i", "t", "l", "e">>}

\* ResumeTailor._find_section_heading: the first paragraph whose upper-cased
\* text is the upper-cased section name; <<>> when there is none
find_section_heading(body, section_name) ==
    LET ps == paragraphs(body)
        hits == {k \in 1..Len(ps) : Upper(ps[k].text) = Upper(section_name)}
    IN IF hits = {} THEN <<>>
       ELSE <<ps[CHOOSE k \in hits : \A m \in hits : k <= m]>>

\* ResumeTailor._clear_until_heading(doc, start_para, target_heading):
\* [body |-> the body afterwards, next |-> <<the paragraph returned>> or <<>>]
clear_until_heading(body, start_para, target_heading) ==
    LET all_paras == iterchildren(body, "w:p")
        starts == {k \in 1..Len(all_paras) : all_paras[k].id = start_para.id}
    IN IF all_paras = <<>> \/ starts = {} THEN [body |-> body, next |-> <<>>]
       ELSE LET start_idx == CHOOSE k \in starts : TRUE
                stops == {k \in (start_idx + 1)..Len(all_paras) :
                             /\ is_heading(all_paras[k])
                             /\ Contains(Lower(all_paras[k].text), Lower(target_heading))}
                end_idx == IF stops = {} THEN Len(all_paras) + 1
                           ELSE CHOOSE k \in stops : \A m \in stops : k <= m
                gone == {all_paras[k].id : k \in (start_idx + 1)..(end_idx - 1)}
            IN [body |-> RemoveIds(body, gone),
                next |-> IF stops = {} THEN <<>> ELSE <<all_paras[end_idx]>>]

\* ---- python-docx calls the engine builds documents with
\* an id no element of the body has
FreshId(body) == CHOOSE n \in 1..(Len(body) + 1) : \A k \in 1..Len(body) : body[k].id # n

\* doc.add_paragraph(text, style): a new last paragraph
add_paragraph(body, text, style) == Append(body, Para(FreshId(body), text, style))

\* the w:pStyle value python-docx writes for a style name; the default
\* paragraph style (Normal) and "no style" write none
StyleId(level) ==
    CASE level = 0 -> <<"T", "i", "t", "l", "e">>
      [] level = 1 -> <<"H", "e", "a", "d", "i", "n", "g", "1">>
      [] level = 2 -> <<"H", "e", "a", "d", "i", "n", "g", "2">>
      [] level = 3 -> <<"H", "e", "a", "d", "i", "n", "g", "3">>

\* doc.add_heading(text, level)
add_heading(body, text, level) == add_paragraph(body, text, StyleId(level))

\* str.strip() leaves nothing
Blank(text) == Strip(text) = <<>>

\* docx_utils.add_paragraph_with_style: blank text gives an empty paragraph
add_paragraph_with_style(body, text, style) ==
    IF Blank(text) THEN add_paragraph(body, <<>>, <<>>) ELSE add_paragraph(body, text, style)

\* docx_utils.add_section(doc, title, level=2)
add_section(body, title) ==
    LET ps == paragraphs(body)
        spaced == IF ps # <<>> /\ ~Blank(ps[Len(ps)].text) THEN add_paragraph(body, <<>>, <<>>) ELSE body
    IN add_paragraph(add_heading(spaced, title, 2), <<>>, <<>>)

\* the paragraph texts of a body
Texts(body) == {body[k].text : k \in 1..Len(body)}

\* =========================================================================
\* generators/services/resume_tailor.py: building and saving a resume
\* a call's result: the document body it leaves and whether it raised
Ok(body) == [body |-> body, raised |-> FALSE]
Raised(body) == [body |-> body, raised |-> TRUE]

IsLetter(c) == (\E k \in 1..26 : UpperLetters[k] = c) \/ (\E k \in 1..26 : LowerLetters[k] = c)

\* str.title()
Title(s) ==
    [i \in 1..Len(s) |-> IF i = 1 \/ ~IsLetter(s[i - 1]) THEN UpperChar(s[i]) ELSE LowerChar(s[i])]

\* lines 309-317: one List Bullet paragraph per bullet that is not blank
RECURSIVE add_bullets(_, _)
add_bullets(body, bullets) ==
    IF bullets = <<>> THEN body
    ELSE add_bullets(IF Blank(Head(bullets)) THEN body
                     ELSE add_paragraph(body, Strip(Head(bullets)), <<"L", "i", "s", "t", "B", "u", "l", "l", "e", "t">>),
                     Tail(bullets))

\* ResumeTailor._add_experience_entry on a dict with a title and bullets
add_experience_entry(body, exp) ==
    add_bullets(IF exp.title # <<>> THEN add_paragraph(body, exp.title, <<>>) ELSE body, exp.bullets)

RECURSIVE add_experience_entries(_, _)
add_experience_entries(body, exps) ==
    IF exps = <<>> THEN body
    ELSE add_experience_entries(add_experience_entry(body, Head(exps)), Tail(exps))

\* one unstyled paragraph per text (lines 206-207, 212-216 and 221-222)
RECURSIVE add_plain_paragraphs(_, _)
add_plain_paragraphs(body, texts) ==
    IF texts = <<>> THEN body
    ELSE add_plain_paragraphs(add_paragraph_with_style(body, Head(texts), <<>>), Tail(texts))

\* f"{category}: {', '.join(skills)}" for each item of technical_skills
SkillLines(skills) == [k \in 1..Len(skills) |-> skills[k].category \o <<":", " ">> \o skills[k].skills]

\* ResumeTailor._build_resume_from_scratch: line 201 calls _add_project_entry,
\* which the class does not define, so a project raises AttributeError there.
\* lines 180-185
scratch_header(prof) ==
    IF prof.name # <<>> THEN add_paragraph_with_style(<<>>, prof.name, <<"H", "e", "a", "d", "i", "n", "g", "1">>)
    ELSE <<>>

\* lines 188-190
scratch_summary(body, data) ==
    IF data.summary # <<>>
    THEN add_paragraph_with_style(add_section(body, <<"S", "U", "M", "M", "A", "R", "Y">>), data.summary, <<>>)
    ELSE body

\* lines 193-196
scratch_experience(body, data) ==
    IF data.experience # <<>>
    THEN add_experience_entries(add_section(body, <<"E", "X", "P", "E", "R", "I", "E", "N", "C", "E">>),
                                data.experience)
    ELSE body

\* lines 199-200: the heading line 201 raises behind
scratch_projects(body, data) ==
    IF data.projects # <<>> THEN add_section(body, <<"P", "R", "O", "J", "E", "C", "T", "S">>) ELSE body

\* lines 204-207
scratch_skills(body, data) ==
    IF data.technical_skills # <<>>
    THEN add_plain_paragraphs(add_section(body, <<"S", "K", "I", "L", "L", "S">>), SkillLines(data.technical_skills))
    ELSE body

\* lines 210-216
scratch_education(body, data) ==
    IF data.education # <<>>
    THEN add_plain_paragraphs(add_section(body, <<"E", "D", "U", "C", "A", "T", "I", "O", "N">>), data.education)
    ELSE body

\* lines 219-222
scratch_publications(body, data) ==
    IF data.research_publications # <<>>
    THEN add_plain_paragraphs(
             add_section(body, <<"R", "E", "S", "E", "A", "R", "C", "H", " ", "&", " ",
                                 "P", "U", "B", "L", "I", "C", "A", "T", "I", "O", "N", "S">>),
             [k \in 1..Len(data.research_publications) |-> <<BULLET, " ">> \o data.research_publications[k]])
    ELSE body

\* the body behind line 200, and the outcome of the lines from 201 on
scratch_outcome(body, data) ==
    IF data.projects # <<>> THEN Raised(body)
    ELSE Ok(scratch_publications(scratch_education(scratch_skills(body, data), data), data))

build_resume_from_scratch(prof, data) ==
    scratch_outcome(
        scratch_projects(scratch_experience(scratch_summary(scratch_header(prof), data), data), data), data)

\* ResumeTailor._ensure_styles_exist with _ensure_numbering defined
ensure_styles_exist_numbered(body) == Ok(body)

\* ResumeTailor._ensure_styles_exist: line 173 calls _ensure_numbering, which
\* the class does not define, so every call raises AttributeError
ensure_styles_exist(body) == Raised(body)

\* paragraph.insert_paragraph_before on the paragraph with this id
InsertBefore(body, id, p) ==
    LET k == CHOOSE i \in 1..Len(body) : body[i].id = id
    IN SubSeq(body, 1, k - 1) \o <<p>> \o SubSeq(body, k, Len(body))

\* ResumeTailor._update_summary_section; line 245 calls the undefined
\* _clear_until_next_heading
update_summary_section(body, summary) ==
    IF summary = <<>> THEN Ok(body)
    ELSE IF find_section_heading(body, <<"S", "U", "M", "M", "A", "R", "Y">>) # <<>> THEN Raised(body)
    ELSE IF paragraphs(body) = <<>>
         THEN Ok(add_paragraph(add_heading(body, <<"S", "U", "M", "M", "A", "R", "Y">>, 1), summary, <<"B", "o", "d", "y", "T", "e", "x", "t">>))
         ELSE LET first == paragraphs(body)[1].id
                  b1 == InsertBefore(body, first, Para(FreshId(body), <<"S", "U", "M", "M", "A", "R", "Y">>, <<"H", "e", "a", "d", "i", "n", "g", "1">>))
              IN Ok(InsertBefore(b1, first, Para(FreshId(b1), summary, <<"B", "o", "d", "y", "T", "e", "x", "t">>)))

\* ResumeTailor._update_experience_section; line 267 calls the undefined
\* _clear_until_next_heading
update_experience_section(body, experience) ==
    IF experience = <<>> THEN Ok(body)
    ELSE IF find_section_heading(body, <<"E", "X", "P", "E", "R", "I", "E", "N", "C", "E">>) # <<>> THEN Raised(body)
    ELSE Ok(add_experience_entries(add_heading(body, <<"E", "X", "P", "E", "R", "I", "E", "N", "C", "E">>, 1), experience))

\* the first of the names a heading of the body carries, as the loops of
\* lines 370-373 and 505-508 find it
FirstHeadingOf(body, names) ==
    LET hits == {k \in 1..Len(names) : find_section_heading(body, Str(names[k])) # <<>>}
    IN IF hits = {} THEN <<>>
       ELSE find_section_heading(body, Str(names[CHOOSE k \in hits : \A m \in hits : k <= m]))

\* ResumeTailor._update_projects_section on dicts with a name; line 381 calls
\* the undefined _clear_until_next_heading; line 403 passes style= where
\* add_paragraph_with_style takes style_name=, so the title gets no style
update_projects_section(body, projects) ==
    IF projects = <<>> THEN Ok(body)
    ELSE IF FirstHeadingOf(body, <<"PROJECTS", "PERSONAL PROJECTS", "SIDE PROJECTS">>) # <<>>
         THEN Raised(body)
    ELSE Ok(add_plain_paragraphs(add_heading(body, <<"P", "R", "O", "J", "E", "C", "T", "S">>, 1), projects))

\* lines 336-348: a heading, the skills and a blank paragraph per category
RECURSIVE add_skill_categories(_, _)
add_skill_categories(body, skills) ==
    IF skills = <<>> THEN body
    ELSE IF Head(skills).skills = <<>> THEN add_skill_categories(body, Tail(skills))
    ELSE add_skill_categories(
             add_paragraph(
                 add_paragraph_with_style(
                     add_paragraph_with_style(body, Upper(Head(skills).category), <<"H", "e", "a", "d", "i", "n", "g", "2">>),
                     Head(skills).skills, <<>>),
                 <<>>, <<>>),
             Tail(skills))

\* ResumeTailor._update_skills_section: it catches what its body raises
rebuild_skills(body, skills_heading, skills) ==
    Ok(add_skill_categories(
           clear_until_heading(body, skills_heading, <<"S", "K", "I", "L", "L", "S">>).body, skills))

\* lines 326-329: b1 ends with the new heading and the blank paragraph
new_skills_heading(b1, skills) == rebuild_skills(b1, b1[Len(b1) - 1], skills)

skills_from(body, found, skills) ==
    IF found = <<>>
    THEN new_skills_heading(add_paragraph(add_heading(body, <<"S", "k", "i", "l", "l", "s">>, 1), <<>>, <<>>), skills)
    ELSE rebuild_skills(body, found[1], skills)

update_skills_section(body, skills) ==
    skills_from(body, find_section_heading(body, <<"S", "K", "I", "L", "L", "S">>), skills)

\* doc.add_table(rows=1, cols=2): a new last table of the body
add_table(body) == Append(body, [tag |-> W_TBL, id |-> FreshId(body), text |-> <<>>, style |-> <<>>])

RECURSIVE add_education_tables(_, _)
add_education_tables(body, education) ==
    IF education = <<>> THEN body ELSE add_education_tables(add_table(body), Tail(education))

\* ResumeTailor._update_education_section on the strings _parse_education
\* stores; line 436 calls the undefined _clear_until_next_heading
update_education_section(body, education) ==
    IF education = <<>> THEN Ok(body)
    ELSE IF find_section_heading(body, <<"E", "D", "U", "C", "A", "T", "I", "O", "N">>) # <<>> THEN Raised(body)
    ELSE Ok(add_education_tables(add_heading(body, <<"E", "D", "U", "C", "A", "T", "I", "O", "N">>, 1), education))

\* ResumeTailor._update_research_publications on PublicationEntry objects:
\* line 516 calls the undefined _clear_until_next_heading, and line 520 calls
\* strip() on an entry, which has no such attribute
update_research_publications(body, publications) ==
    IF publications = <<>> THEN Ok(body)
    ELSE IF FirstHeadingOf(body, <<"RESEARCH & PUBLICATIONS", "PUBLICATIONS", "RESEARCH">>) # <<>>
         THEN Raised(body)
    ELSE Raised(add_heading(body, <<"R", "E", "S", "E", "A", "R", "C", "H", " ", "&", " ", "P", "U", "B", "L", "I", "C", "A", "T", "I", "O", "N", "S">>, 1))

\* lines 123-131: section name, required
SectionNames == <<"SUMMARY", "EXPERIENCE", "PROJECTS", "SKILLS", "EDUCATION", "RESEARCH PUBLICATIONS">>
SectionRequired == <<TRUE, TRUE, FALSE, TRUE, TRUE, FALSE>>

\* ---- named styles: docx_utils.get_or_create_style and the style names the
\* ---- section updates of ResumeTailor hand to python-docx
StyleFrame == UNCHANGED <<bucketVars, keyVars, locVars, gatherVars, docVars, procVars, parseVars, dashVars, fetchVars, yieldVars>>

\* the style names the template engine names
StyleNames == {"Heading 1", "Heading 2", "Normal", "List Bullet", "Body Text", "Table Normal"}

\* ResumeTailor._ensure_styles_exist, lines 164-167, the names among StyleNames
required_styles == {"Heading 1", "Heading 2", "Normal", "List Bullet"}

\* a reference to a style: "tolerant" goes through get_or_create_style,
\* "direct" hands the name to python-docx (add_paragraph(style=),
\* insert_paragraph_before(style=), add_heading, table.style =)
Site(how, style) == [how |-> how, style |-> style]

\* docx_utils.get_or_create_style: the style is looked up and, when absent,
\* added by _create_style
get_or_create_style(styles, name) == [raised |-> FALSE, missing |-> "", styles |-> styles \cup {name}]

\* python-docx resolves a style name with styles[name], which raises
\* KeyError when the styles part has no style of that name
style_by_name(styles, name) ==
    IF name \in styles THEN [raised |-> FALSE, missing |-> "", styles |-> styles]
    ELSE [raised |-> TRUE, missing |-> name, styles |-> styles]

\* the style references a section update makes, in order, on a document that
\* has no heading of the section yet
StyleSites(section) ==
    CASE section = "SUMMARY" -> <<Site("direct", "Heading 1"), Site("direct", "Body Text")>>
      [] section = "EXPERIENCE" -> <<Site("direct", "Heading 1"), Site("direct", "Normal"), Site("direct", "List Bullet")>>
      [] section = "PROJECTS" -> <<Site("direct", "Heading 1")>>
      [] section = "SKILLS" -> <<Site("direct", "Heading 1"), Site("tolerant", "Heading 2"), Site("tolerant", "Normal")>>
      [] section = "EDUCATION" -> <<Site("direct", "Heading 1"), Site("direct", "Table Normal")>>
      [] section = "RESEARCH PUBLICATIONS" -> <<Site("direct", "Heading 1"), Site("direct", "List Bullet")>>

\* the references of a section update one after the other, up to the first
\* that raises
RECURSIVE WalkSites(_, _)
WalkSites(styles, sites) ==
    IF sites = <<>> THEN [raised |-> FALSE, missing |-> "", styles |-> styles]
    ELSE LET r == IF Head(sites).how = "tolerant"
                  THEN get_or_create_style(styles, Head(sites).style)
                  ELSE style_by_name(styles, Head(sites).style)
         IN IF r.raised THEN r ELSE WalkSites(r.styles, Tail(sites))

\* _update_skills_section wraps its body in try/except (lines 321, 350-360);
\* the other section updates let the error out
CatchesOwnErrors(section) == section = "SKILLS"

section_update_styles(styles, section) ==
    LET r == WalkSites(styles, StyleSites(section))
    IN IF CatchesOwnErrors(section) THEN [r EXCEPT !.raised = FALSE] ELSE r

StyleInit ==
    /\ doc_styles \in SUBSET StyleNames
    /\ style_log = <<>>
    /\ BucketIdle /\ KeyIdle /\ LocIdle /\ GatherIdle /\ DocIdle /\ ProcIdle /\ ParseIdle /\ DashIdle /\ FetchIdle /\ YieldIdle

\* the loop of _ensure_styles_exist, lines 169-170
EnsureStyles ==
    /\ Len(style_log) < MaxUpdates
    /\ ~(required_styles \subseteq doc_styles)
    /\ doc_styles' = doc_styles \cup required_styles
    /\ style_log' = Append(style_log, [section |-> "ensure", raised |-> FALSE, missing |-> ""])
    /\ StyleFrame

\* one section update with data for its section
UpdateSection ==
    /\ Len(style_log) < MaxUpdates
    /\ \E k \in 1..Len(SectionNames) :
           LET r == section_update_styles(doc_styles, SectionNames[k])
           IN /\ doc_styles' = r.styles
              /\ style_log' = Append(style_log, [section |-> SectionNames[k], raised |-> r.raised, missing |-> r.missing])
    /\ StyleFrame

StyleNext == EnsureStyles \/ UpdateSection

SectionData(data, k) ==
    CASE k = 1 -> data.summary
      [] k = 2 -> data.experience
      [] k = 3 -> data.projects
      [] k = 4 -> data.technical_skills
      [] k = 5 -> data.education
      [] k = 6 -> data.research_publications

UpdateFunc(k, body, section_data) ==
    CASE k = 1 -> update_summary_section(body, section_data)
      [] k = 2 -> update_experience_section(body, section_data)
      [] k = 3 -> update_projects_section(body, section_data)
      [] k = 4 -> update_skills_section(body, section_data)
      [] k = 5 -> update_education_section(body, section_data)
      [] k = 6 -> update_research_publications(body, section_data)

\* lines 141-148: the section heading is found, or added at the end
EnsureHeading(body, section_name) ==
    IF find_section_heading(body, section_name) # <<>> THEN body
    ELSE LET ps == paragraphs(body)
             spaced == IF ps # <<>> /\ ~Blank(ps[Len(ps)].text) THEN add_paragraph(body, <<>>, <<>>) ELSE body
         IN add_paragraph(add_heading(spaced, Title(section_name), 1), <<>>, <<>>)

\* lines 133-155 from section k on: what a section's update raises is logged
\* and the loop goes on; failed collects the sections that raised
RECURSIVE update_sections(_, _, _)
section_result(r, rest, k) ==
    [body |-> rest.body, failed |-> rest.failed \cup (IF r.raised THEN {k} ELSE {})]

after_section(r, data, k) == section_result(r, update_sections(r.body, data, k + 1), k)

update_sections(body, data, k) ==
    IF k > Len(SectionNames) THEN [body |-> body, failed |-> {}]
    ELSE IF SectionData(data, k) = <<>> /\ SectionRequired[k] THEN update_sections(body, data, k + 1)
    ELSE after_section(UpdateFunc(k, EnsureHeading(body, Str(SectionNames[k])), SectionData(data, k)), data, k)

\* ResumeTailor._update_template_with_tailored_data: line 160 re-raises what
\* _ensure_styles_exist raised
updated(u) == [body |-> u.body, raised |-> FALSE, failed |-> u.failed]

update_template_with_tailored_data(body, data) ==
    IF ensure_styles_exist(body).raised THEN [body |-> body, raised |-> TRUE, failed |-> {}]
    ELSE updated(update_sections(body, data, 1))

\* template_utils.save_document: the saved file, or nothing when it raises
save_document(body, save_ok) == IF save_ok THEN <<[kind |-> "docx", body |-> body]>> ELSE <<>>

\* ResumeTailor.create_tailored_resume. template.state is "missing" (no path,
\* or nothing at it), "corrupt" (Document(path) raises) or "ok".
\* (mutant) lines 90-94 without the rebuild: an update pass that raised leaves
\* nothing to save
tailored_document_no_rebuild(template, u, scratch) ==
    IF template.state = "corrupt" THEN [built |-> "none", body |-> <<>>]
    ELSE IF template.state = "ok" /\ ~u.raised THEN [built |-> "template", body |-> u.body]
    ELSE IF template.state = "ok" \/ scratch.raised THEN [built |-> "none", body |-> <<>>]
    ELSE [built |-> "scratch", body |-> scratch.body]

\* lines 83-100: the document line 103 saves
tailored_document(template, u, scratch) ==
    IF template.state = "corrupt" THEN [built |-> "none", body |-> <<>>]
    ELSE IF template.state = "ok" /\ ~u.raised THEN [built |-> "template", body |-> u.body]
    ELSE IF scratch.raised THEN [built |-> "none", body |-> <<>>]
    ELSE [built |-> "scratch", body |-> scratch.body]

\* what the call leaves: saved is the file of line 103, nothing when the
\* call raised
create_outcome(template, u, built, saved) ==
    [op |-> "create", template |-> template.state,
     update_raised |-> template.state = "ok" /\ u.raised,
     failed |-> IF template.state = "ok" THEN u.failed ELSE {},
     built |-> built, saved |-> saved, raised |-> saved = <<>>]

\* line 103
create_saved(template, u, document, save_ok) ==
    create_outcome(template, u, document.built,
                   IF document.built = "none" THEN <<>> ELSE save_document(document.body, save_ok))

\* lines 83-100: u is what the update pass left, scratch what the rebuild gives
create_from(template, u, scratch, save_ok) ==
    create_saved(template, u, tailored_document(template, u, scratch), save_ok)

create_tailored_resume(prof, data, template, save_ok) ==
    create_from(template, update_template_with_tailored_data(template.body, data),
                build_resume_from_scratch(prof, data), save_ok)

DocFrame == UNCHANGED <<bucketVars, keyVars, locVars, gatherVars, procVars, parseVars, dashVars, styleVars, fetchVars, yieldVars>>

\* the paragraphs a template is made of
ParaKinds == {<<"SKILLS", "Heading1">>, <<"EDUCATION", "Heading1">>,
              <<"Soft Skills", "Heading2">>, <<"Python", "">>}

Templates ==
    {[k \in 1..Len(ks) |-> Para(k, Str(ks[k][1]), Str(ks[k][2]))] : ks \in SeqsUpTo(ParaKinds, MaxParas)}

DocInit ==
    /\ doc \in Templates
    /\ doc_before = doc
    /\ engine_call = [op |-> "none"]
    /\ BucketIdle /\ KeyIdle /\ LocIdle /\ GatherIdle /\ ProcIdle /\ ParseIdle /\ DashIdle /\ StyleIdle /\ FetchIdle /\ YieldIdle

\* lines 323-329 of _update_skills_section on a template that has the heading:
\* the SKILLS heading is found and the section under it is cleared
ClearSkills ==
    /\ engine_call.op = "none"
    /\ find_section_heading(doc, <<"S", "K", "I", "L", "L", "S">>) # <<>>
    /\ LET start == find_section_heading(doc, <<"S", "K", "I", "L", "L", "S">>)[1]
           r == clear_until_heading(doc, start, <<"S", "K", "I", "L", "L", "S">>)
       IN /\ doc' = r.body
          /\ engine_call' = [op |-> "clear", start |-> start.id, next |-> r.next]
    /\ UNCHANGED doc_before
    /\ DocFrame

\* the data a section update is called with: one or two entries
SectionSamples(k) ==
    CASE k = 1 -> {<<"N", "e", "w">>}
      [] k = 2 -> {<<[title |-> <<"D", "e", "v">>, bullets |-> <<<<"A", "p", "p">>>>]>>,
                   <<[title |-> <<"D", "e", "v">>, bullets |-> <<>>], [title |-> <<"O", "p", "s">>, bullets |-> <<>>]>>}
      [] k = 3 -> {<<<<"A", "p", "p">>>>, <<<<"A", "p", "p">>, <<"B", "o", "t">>>>}
      [] k = 4 -> {<<[category |-> <<"T", "o", "o", "l", "s">>, skills |-> <<"G", "i", "t">>]>>}
      [] k = 5 -> {<<<<"B", ".", "T", "e", "c", "h">>>>, <<<<"B", ".", "T", "e", "c", "h">>, <<"M", "S", "c">>>>}
      [] k = 6 -> {<<<<"P", "a", "p", "e", "r">>>>}

\* the heading texts the update of section k looks for, in the order tried:
\* lines 232, 258, 367, 323, 429 and 502
Candidates(k) ==
    CASE k = 1 -> <<"SUMMARY">>
      [] k = 2 -> <<"EXPERIENCE">>
      [] k = 3 -> <<"PROJECTS", "PERSONAL PROJECTS", "SIDE PROJECTS">>
      [] k = 4 -> <<"SKILLS">>
      [] k = 5 -> <<"EDUCATION">>
      [] k = 6 -> <<"RESEARCH & PUBLICATIONS", "PUBLICATIONS", "RESEARCH">>

\* one of the six section updates is called on the document with data for it
CallUpdate ==
    /\ engine_call.op = "none"
    /\ \E k \in 1..Len(SectionNames) : \E section_data \in SectionSamples(k) :
           LET r == UpdateFunc(k, doc, section_data)
           IN /\ doc' = r.body
              /\ engine_call' = [op |-> "update", section |-> k, data |-> section_data,
                                 found |-> FirstHeadingOf(doc, Candidates(k)), raised |-> r.raised]
    /\ UNCHANGED doc_before
    /\ DocFrame

DocNext == ClearSkills \/ CallUpdate


\* =========================================================================
\* generators/services/fallback_service.py
\* lines 122-152 on Education objects with a degree
RECURSIVE add_basic_education_entries(_, _)
add_basic_education_entries(body, education) ==
    IF education = <<>> THEN body
    ELSE add_basic_education_entries(
             IF Head(education).degree # <<>>
             THEN add_paragraph_with_style(body, Head(education).degree, <<>>) ELSE body,
             Tail(education))

\* FallbackService._add_basic_resume_content: it reads self.profile only;
\* line 108 tests 'title' in exp on an Experience object, a TypeError.
\* lines 50-51
basic_header(prof) ==
    IF prof.name # <<>> THEN add_paragraph_with_style(<<>>, prof.name, <<"H", "e", "a", "d", "i", "n", "g", "1">>)
    ELSE <<>>

\* lines 68-70
basic_summary(body, prof) ==
    IF prof.summary # <<>>
    THEN add_paragraph_with_style(add_section(body, <<"S", "U", "M", "M", "A", "R", "Y">>), prof.summary, <<>>)
    ELSE body

\* lines 73-76: the heading line 108 raises behind
basic_experience(body, prof) ==
    IF prof.experience # <<>> THEN add_section(body, <<"E", "X", "P", "E", "R", "I", "E", "N", "C", "E">>) ELSE body

\* lines 99-102
basic_education(body, prof) ==
    IF prof.education # <<>>
    THEN add_basic_education_entries(add_section(body, <<"E", "D", "U", "C", "A", "T", "I", "O", "N">>),
                                     prof.education)
    ELSE body

basic_outcome(body, prof) == IF prof.experience # <<>> THEN Raised(body) ELSE Ok(basic_education(body, prof))

add_basic_resume_content(prof) ==
    basic_outcome(basic_experience(basic_summary(basic_header(prof), prof), prof), prof)

\* lines 163-191: the lines of the text file
TextLines(prof) ==
    (IF prof.name # <<>>
     THEN <<Upper(prof.name), [i \in 1..Len(prof.name) |-> "="], <<>>>> ELSE <<>>)
    \o (IF prof.summary # <<>> THEN <<<<"S", "U", "M", "M", "A", "R", "Y">>, <<"-", "-", "-", "-", "-", "-", "-">>, prof.summary, <<>>>> ELSE <<>>)

\* FallbackService._create_simple_text_fallback: lines 200 and 238 test a key
\* in an Experience or Education object, a TypeError; the file, or nothing
\* when it raises
create_simple_text_fallback(prof, write_ok) ==
    IF prof.experience # <<>> \/ prof.education # <<>> \/ ~write_ok THEN <<>>
    ELSE <<[kind |-> "text", body |-> TextLines(prof)]>>

\* FallbackService.create_basic_resume(output_path)
basic_result(docx, file) == [docx_raised |-> docx = <<>>, file |-> file, raised |-> file = <<>>]

\* lines 42-45: docx is what line 40 saved, nothing when lines 34-40 raised
basic_or_text(docx, prof, write_ok) ==
    basic_result(docx, IF docx # <<>> THEN docx ELSE create_simple_text_fallback(prof, write_ok))

\* line 40
basic_saved(content, save_ok) == IF content.raised THEN <<>> ELSE save_document(content.body, save_ok)

create_basic_resume(prof, save_ok, write_ok) ==
    basic_or_text(basic_saved(add_basic_resume_content(prof), save_ok), prof, write_ok)

\* =========================================================================
\* main.py process_jobs
ProcFrame == UNCHANGED <<bucketVars, keyVars, locVars, gatherVars, docVars, parseVars, dashVars, styleVars, fetchVars, yieldVars>>

Profiles ==
    {[name |-> <<"A", "d", "a">>, summary |-> Str(s), experience |-> h[1], education |-> h[2]] :
        s \in {"", "Old"},
        h \in {<<<<>>, <<>>>>, <<<<[title |-> <<"D", "e", "v">>]>>, <<>>>>, <<<<>>, <<[degree |-> <<"B", ".", "T", "e", "c", "h">>]>>>>}}

\* what generate_tailored_content can return
TailoredSamples ==
    {[summary |-> Str(s),
      experience |-> IF k = <<>> THEN <<>> ELSE <<[title |-> <<"D", "e", "v">>, bullets |-> <<<<"A", "p", "p">>>>]>>,
      projects |-> p, technical_skills |-> k,
      education |-> IF k = <<>> THEN <<>> ELSE <<<<"B", ".", "T", "e", "c", "h">>>>,
      research_publications |-> IF k = <<>> THEN <<>> ELSE <<<<"P", "a", "p", "e", "r">>>>] :
        s \in {"", "New"},
        p \in {<<>>, <<<<"A", "p", "p">>>>},
        k \in {<<>>, <<[category |-> <<"T", "o", "o", "l", "s">>, skills |-> <<"P", "y", "t", "h", "o", "n">>]>>}}

\* the template file: absent, unreadable, python-docx's empty default, a resume
TemplateStates ==
    {[state |-> "missing", body |-> <<>>], [state |-> "corrupt", body |-> <<>>],
     [state |-> "ok", body |-> <<>>],
     [state |-> "ok", body |-> <<Para(1, <<"A", "d", "a">>, <<"T", "i", "t", "l", "e">>),
                                Para(2, <<"S", "U", "M", "M", "A", "R", "Y">>, <<"H", "e", "a", "d", "i", "n", "g", "1">>),
                                Para(3, <<"O", "l", "d">>, <<>>),
                                Para(4, <<"S", "K", "I", "L", "L", "S">>, <<"H", "e", "a", "d", "i", "n", "g", "1">>),
                                Para(5, <<"P", "y", "t", "h", "o", "n">>, <<>>)>>]}


\* the provider a job_id of the model comes from
SourceOf(i) == IF i = 1 THEN "linkedin" ELSE IF i = 2 THEN "indeed" ELSE "internshala"

ProcessJobPosts == {[job_id |-> i, source |-> SourceOf(i)] : i \in JobIds}

ProcInit ==
    /\ profile \in Profiles
    /\ jobs \in SeqsUpTo(ProcessJobPosts, MaxJobs)
    /\ job_i = 1
    /\ proc_pc = "loop"
    /\ processed = {}
    /\ applications \in {{}, {1}}
    /\ tailored = <<>>
    /\ resume_out = <<>>
    /\ events = <<>>
    /\ create_call = [op |-> "none"]
    /\ job_log = <<>> /\ apply_calls = <<>>
    /\ BucketIdle /\ KeyIdle /\ LocIdle /\ GatherIdle /\ DocIdle /\ ParseIdle /\ DashIdle /\ StyleIdle /\ FetchIdle /\ YieldIdle

job == jobs[job_i]

\* (mutant) no application record is ever found
is_applied_never(apps, id) == FALSE

\* storage/db.py is_applied: SELECT 1 FROM applications WHERE job_id = ?
is_applied(apps, id) == id \in apps

\* storage/db.py mark_applied: INSERT OR REPLACE INTO applications
mark_applied(apps, id) == apps \cup {id}

\* the body of the loop is over for the job at hand: its resume is the
\* tailored one, the fallback one, or there is none ("failed", line 98)
EndJob(fate) ==
    /\ job_i' = job_i /\ proc_pc' = "end"
    /\ job_log' = [job_log EXCEPT ![Len(job_log)].fate = fate]

\* line 53 takes the next job; the names of lines 60-93 are bound anew
NextJob ==
    /\ proc_pc = "end"
    /\ job_i' = job_i + 1 /\ proc_pc' = "loop"
    /\ tailored' = <<>> /\ resume_out' = <<>> /\ events' = <<>> /\ create_call' = [op |-> "none"]
    /\ UNCHANGED <<profile, jobs, processed, applications>>
    /\ UNCHANGED <<job_log, apply_calls>>
    /\ ProcFrame

\* lines 54-58: a job_id seen in this run or applied to before is skipped
SkipJob ==
    /\ proc_pc = "loop" /\ job_i <= Len(jobs)
    /\ job.job_id \in processed \/ is_applied(applications, job.job_id)
    /\ processed' = processed \cup {job.job_id}
    /\ job_i' = job_i + 1
    /\ UNCHANGED <<profile, jobs, proc_pc, applications, tailored, resume_out, events, create_call>>
    /\ UNCHANGED <<job_log, apply_calls>>
    /\ ProcFrame

\* line 57: is_applied raises (the database cannot be read); nothing in
\* process_jobs catches it
GateRaises ==
    /\ proc_pc = "loop" /\ job_i <= Len(jobs)
    /\ job.job_id \notin processed
    /\ processed' = processed \cup {job.job_id}
    /\ events' = Append(events, "is_applied_raised")
    /\ proc_pc' = "aborted"
    /\ UNCHANGED <<profile, jobs, job_i, applications, tailored, resume_out, create_call>>
    /\ UNCHANGED <<job_log, apply_calls>>
    /\ ProcFrame

\* lines 54-72: the job passes the gate
StartJob ==
    /\ proc_pc = "loop" /\ job_i <= Len(jobs)
    /\ job.job_id \notin processed /\ ~is_applied(applications, job.job_id)
    /\ processed' = processed \cup {job.job_id}
    /\ proc_pc' = "generate"
    /\ job_log' = Append(job_log, [job_id |-> job.job_id, fate |-> "open"])
    /\ UNCHANGED <<profile, jobs, job_i, applications, tailored, resume_out, events, create_call, apply_calls>>
    /\ ProcFrame

ProcessReturns ==
    /\ proc_pc = "loop" /\ job_i > Len(jobs)
    /\ proc_pc' = "done"
    /\ UNCHANGED <<profile, jobs, job_i, processed, applications, tailored, resume_out, events, create_call>>
    /\ UNCHANGED <<job_log, apply_calls>>
    /\ ProcFrame

\* line 74 raises (the model cannot be loaded, a parser raises)
GenerateRaises ==
    /\ proc_pc = "generate"
    /\ events' = Append(events, "generate_raised")
    /\ proc_pc' = "fallback"
    /\ UNCHANGED <<profile, jobs, job_i, processed, applications, tailored, resume_out, create_call>>
    /\ UNCHANGED <<job_log, apply_calls>>
    /\ ProcFrame

\* line 74 returns
GenerateReturns ==
    /\ proc_pc = "generate"
    /\ \E data \in TailoredSamples : tailored' = <<data>>
    /\ events' = Append(events, "generate_returned")
    /\ proc_pc' = "create"
    /\ UNCHANGED <<profile, jobs, job_i, processed, applications, resume_out, create_call>>
    /\ UNCHANGED <<job_log, apply_calls>>
    /\ ProcFrame

\* line 76: r is what create_tailored_resume left
TailoredOutcome(r) ==
    /\ create_call' = r
    /\ resume_out' = IF r.raised THEN resume_out ELSE r.saved
    /\ events' = Append(events, IF r.raised THEN "tailored_raised" ELSE "tailored_saved")
    /\ proc_pc' = IF r.raised THEN "fallback" ELSE "cover"

CreateTailoredResume ==
    /\ proc_pc = "create"
    /\ \E template \in TemplateStates, save_ok \in BOOLEAN :
          TailoredOutcome(create_tailored_resume(profile, tailored[1], template, save_ok))
    /\ UNCHANGED <<profile, jobs, job_i, processed, applications, tailored>>
    /\ UNCHANGED <<job_log, apply_calls>>
    /\ ProcFrame

\* lines 79-80: cover_letter_service.py line 123 calls get on an Experience
\* object, an AttributeError, and saving may fail
GenerateCoverLetter ==
    /\ proc_pc = "cover"
    /\ \E save_ok \in BOOLEAN :
          LET raised == profile.experience # <<>> \/ ~save_ok
          IN /\ events' = Append(events, IF raised THEN "cover_raised" ELSE "cover_saved")
             /\ proc_pc' = IF raised THEN "fallback" ELSE "apply"
    /\ UNCHANGED <<profile, jobs, job_i, processed, applications, tailored, resume_out, create_call>>
    /\ UNCHANGED <<job_log, apply_calls>>
    /\ ProcFrame

\* apply/applicant.py apply: only the LinkedIn flow can submit, or raise; after
\* a submission mark_applied may raise ("mark_raised"), and apply has no handler
ApplyOutcomes(j) ==
    IF j.source = "linkedin" THEN {"submitted", "declined", "raised", "mark_raised"} ELSE {"declined"}

\* lines 77-78 of apply: mark_applied runs only when ok is true
Recorded(apps, j, outcome) == IF outcome = "submitted" THEN mark_applied(apps, j.job_id) ELSE apps

\* line 85
Apply ==
    /\ proc_pc = "apply"
    /\ \E outcome \in ApplyOutcomes(job) :
          /\ applications' = Recorded(applications, job, outcome)
          /\ events' = Append(events, "apply_" \o outcome)
          /\ IF outcome \in {"raised", "mark_raised"}
             THEN proc_pc' = "fallback" /\ job_i' = job_i /\ job_log' = job_log
             ELSE EndJob("tailored")
    /\ apply_calls' = Append(apply_calls, job.job_id)
    /\ UNCHANGED <<profile, jobs, processed, tailored, resume_out, create_call>>
    /\ ProcFrame

\* (mutant) lines 92-93 without the try of line 91: a fallback that raises
\* leaves process_jobs
BasicOutcome_unguarded(r) ==
    /\ resume_out' = IF r.raised THEN resume_out ELSE r.file
    /\ events' = events \o <<"basic_started">>
                 \o (IF ~r.docx_raised THEN <<"basic_saved">>
                     ELSE <<"basic_raised", IF r.raised THEN "text_raised" ELSE "text_written">>)
    /\ job_i' = job_i /\ job_log' = job_log
    /\ proc_pc' = IF r.raised THEN "aborted" ELSE "fallback_apply"

\* lines 92-93, and line 98 when the fallback raises too: r is what
\* create_basic_resume left
BasicOutcome(r) ==
    /\ resume_out' = IF r.raised THEN resume_out ELSE r.file
    /\ events' = events \o <<"basic_started">>
                 \o (IF ~r.docx_raised THEN <<"basic_saved">>
                     ELSE <<"basic_raised", IF r.raised THEN "text_raised" ELSE "text_written">>)
    /\ IF r.raised THEN EndJob("failed")
       ELSE proc_pc' = "fallback_apply" /\ job_i' = job_i /\ job_log' = job_log

FallbackBasicResume ==
    /\ proc_pc = "fallback"
    /\ \E save_ok \in BOOLEAN, write_ok \in BOOLEAN : BasicOutcome(create_basic_resume(profile, save_ok, write_ok))
    /\ UNCHANGED <<profile, jobs, processed, applications, tailored, create_call, apply_calls>>
    /\ ProcFrame

\* line 95, and line 98 when it raises
FallbackApply ==
    /\ proc_pc = "fallback_apply"
    /\ \E outcome \in ApplyOutcomes(job) :
          /\ applications' = Recorded(applications, job, outcome)
          /\ events' = Append(events, "fallback_apply_" \o outcome)
    /\ EndJob("fallback")
    /\ apply_calls' = Append(apply_calls, job.job_id)
    /\ UNCHANGED <<profile, jobs, processed, tailored, resume_out, create_call>>
    /\ ProcFrame

ProcNext ==
    \/ SkipJob \/ GateRaises \/ StartJob \/ NextJob \/ ProcessReturns
    \/ GenerateRaises \/ GenerateReturns
    \/ CreateTailoredResume \/ GenerateCoverLetter \/ Apply
    \/ FallbackBasicResume \/ FallbackApply

\* =========================================================================
\* generators/utils/parsing_utils.py: re.search with DOTALL | IGNORECASE
NL == "\n"

Digits == {"0", "1", "2", "3", "4", "5", "6", "7", "8", "9"}

\* \w
IsWordChar(c) == IsLetter(c) \/ c \in Digits \/ c = "_"

\* \s* from position p: the first position that holds no whitespace
RECURSIVE SkipSpace(_, _)
SkipSpace(s, p) == IF p <= Len(s) /\ IsSpace(s[p]) THEN SkipSpace(s, p + 1) ELSE p

\* the text t stands at position p of s, letter case aside
LitAt(s, p, t) == p + Len(t) - 1 <= Len(s) /\ Upper(SubSeq(s, p, p + Len(t) - 1)) = Upper(t)

\* the first position from p on where t stands as it is, 0 when nowhere
IndexFrom(s, p, t) ==
    LET hits == {k \in p..(Len(s) - Len(t) + 1) : SubSeq(s, k, k + Len(t) - 1) = t}
    IN IF hits = {} THEN 0 ELSE CHOOSE k \in hits : \A m \in hits : k <= m

\* the parts of a pattern before its group: a literal text, or one of
WS == <<"\\s*">>
SEP == <<"[ _]?">>
WS_NL == <<"\\s*\\n">>

\* the position behind the item when it matches at p, 0 when it does not;
\* the text behind each \s* and [ _]? of the patterns starts with a letter
\* or "#", so the longest match is the only one
MatchItem(s, p, item) ==
    IF item = WS THEN SkipSpace(s, p)
    ELSE IF item = SEP THEN (IF p <= Len(s) /\ s[p] \in {" ", "_"} THEN p + 1 ELSE p)
    ELSE IF item = WS_NL
         THEN LET nls == {k \in p..(SkipSpace(s, p) - 1) : s[k] = NL}
              IN IF nls = {} THEN 0 ELSE 1 + CHOOSE k \in nls : \A m \in nls : m <= k
    ELSE IF LitAt(s, p, item) THEN p + Len(item) ELSE 0

RECURSIVE MatchHead(_, _, _)
MatchHead(s, p, head) ==
    IF head = <<>> THEN p
    ELSE LET q == MatchItem(s, p, Head(head))
         IN IF q = 0 THEN 0 ELSE MatchHead(s, q, Tail(head))

\* the lookahead of a pattern holds at b: (?=##), (?=##\s*\w) or (?=\n##)
StopAt(s, b, stop) ==
    CASE stop = "##" -> LitAt(s, b, <<"#", "#">>)
      [] stop = "##\\s*\\w" ->
            /\ LitAt(s, b, <<"#", "#">>)
            /\ SkipSpace(s, b + 2) <= Len(s) /\ IsWordChar(s[SkipSpace(s, b + 2)])
      [] stop = "\\n##" -> LitAt(s, b, <<NL, "#", "#">>)

\* $ holds at b: the end, or the newline the text ends with
EndAt(s, b) == b = Len(s) + 1 \/ (b = Len(s) /\ s[b] = NL)

\* a pattern: head, then gap ("" for none, "[\s\S]*?\n" or "[\s\S]*?\n\s*"),
\* then the lazy text up to the lookahead or $, which is group 1 when the
\* pattern has a group
Pattern(head, gap, group, stop) == [head |-> head, gap |-> gap, group |-> group, stop |-> stop]

\* where the lazy text starts when the pattern is tried at i, 0 when the
\* pattern does not match there; q is the first newline behind the head
AfterGap(s, q, gap) ==
    IF q = 0 THEN 0 ELSE IF gap = "[\\s\\S]*?\\n" THEN q + 1 ELSE SkipSpace(s, q + 1)

\* a is where the head ends; the gap runs to the first newline behind it
AfterHead(s, a, gap) == IF a = 0 \/ gap = "" THEN a ELSE AfterGap(s, IndexFrom(s, a, <<NL>>), gap)

TextStart(s, i, pat) == AfterHead(s, MatchHead(s, i, pat.head), pat.gap)

\* re.search(pattern, s): the leftmost match, its lazy text the shortest
Least(S) == CHOOSE k \in S : \A m \in S : k <= m

\* the match that starts its lazy text at a
MatchFrom(s, a, stop) ==
    [found |-> TRUE,
     text |-> SubSeq(s, a, Least({b \in a..(Len(s) + 1) : StopAt(s, b, stop) \/ EndAt(s, b)}) - 1)]

\* starts: the positions the pattern matches at
MatchAt(s, starts, pat) ==
    IF starts = {} THEN [found |-> FALSE, text |-> <<>>]
    ELSE MatchFrom(s, TextStart(s, Least(starts), pat), pat.stop)

re_search(s, pat) == MatchAt(s, {i \in 1..(Len(s) + 1) : TextStart(s, i, pat) # 0}, pat)

\* the loops of lines 66-71, 169-174, 254-259, 472-477 and 562-567: the
\* patterns in order; match.group(1) raises IndexError on a pattern that has
\* no group; the first text that is not blank ends the loop
RECURSIVE FindSection(_, _)
GroupOne(s, m, patterns) ==
    IF ~m.found THEN FindSection(s, Tail(patterns))
    ELSE IF ~Head(patterns).group THEN [raised |-> TRUE, text |-> <<>>]
    ELSE IF Strip(m.text) # <<>> THEN [raised |-> FALSE, text |-> Strip(m.text)]
    ELSE FindSection(s, Tail(patterns))

FindSection(s, patterns) ==
    IF patterns = <<>> THEN [raised |-> FALSE, text |-> <<>>]
    ELSE GroupOne(s, re_search(s, Head(patterns)), patterns)

HH == <<"#", "#">>

summary_patterns ==
    <<Pattern(<<HH, WS, <<"S", "U", "M", "M", "A", "R", "Y">>, WS, HH>>, "", TRUE, "##"),
      Pattern(<<HH, WS, <<"P", "R", "O", "F", "E", "S", "S", "I", "O", "N", "A", "L">>, SEP, <<"S", "U", "M", "M", "A", "R", "Y">>>>, "", TRUE, "##"),
      Pattern(<<HH, WS, <<"A", "B", "O", "U", "T">>, SEP, <<"M", "E">>>>, "", TRUE, "##"),
      Pattern(<<<<"S", "U", "M", "M", "A", "R", "Y">>>>, "[\\s\\S]*?\\n\\s*", TRUE, "\\n##")>>

exp_patterns ==
    <<Pattern(<<HH, WS, <<"P", "R", "O", "F", "E", "S", "S", "I", "O", "N", "A", "L">>, SEP, <<"E", "X", "P", "E", "R", "I", "E", "N", "C", "E">>, WS, HH>>, "", TRUE, "##"),
      Pattern(<<HH, WS, <<"W", "O", "R", "K">>, SEP, <<"E", "X", "P", "E", "R", "I", "E", "N", "C", "E">>, WS, HH>>, "", TRUE, "##"),
      Pattern(<<HH, WS, <<"E", "X", "P", "E", "R", "I", "E", "N", "C", "E">>>>, "", TRUE, "##\\s*\\w"),
      Pattern(<<HH, WS, <<"W", "O", "R", "K">>>>, "", FALSE, "##\\s*\\w")>>

project_patterns ==
    <<Pattern(<<HH, WS, <<"P", "R", "O", "J", "E", "C", "T", "S">>, WS, HH>>, "", TRUE, "##"),
      Pattern(<<HH, WS, <<"P", "R", "O", "J", "E", "C", "T", "S">>>>, "", TRUE, "##\\s*\\w"),
      Pattern(<<HH, WS, <<"S", "E", "L", "E", "C", "T", "E", "D">>, SEP, <<"P", "R", "O", "J", "E", "C", "T", "S">>>>, "", TRUE, "##")>>

skills_patterns ==
    <<Pattern(<<HH, WS, <<"T", "E", "C", "H", "N", "I", "C", "A", "L">>, SEP, <<"S", "K", "I", "L", "L", "S">>, WS, HH>>, "", TRUE, "##"),
      Pattern(<<HH, WS, <<"S", "K", "I", "L", "L", "S">>>>, "[\\s\\S]*?\\n", TRUE, "##"),
      Pattern(<<HH, WS, <<"T", "E", "C", "H", "N", "I", "C", "A", "L">>, SEP, <<"S", "K", "I", "L", "L", "S">>>>, "[\\s\\S]*?\\n", TRUE, "##"),
      Pattern(<<HH, WS, <<"S", "K", "I", "L", "L", "S">>, WS_NL>>, "", TRUE, "##\\s*\\w")>>

edu_patterns ==
    <<Pattern(<<HH, WS, <<"E", "D", "U", "C", "A", "T", "I", "O", "N">>, WS, HH>>, "", TRUE, "##"),
      Pattern(<<HH, WS, <<"E", "D", "U", "C", "A", "T", "I", "O", "N">>>>, "", TRUE, "##\\s*\\w"),
      Pattern(<<HH, WS, <<"E", "D", "U", "C", "A", "T", "I", "O", "N">>>>, "", FALSE, "##\\s*\\w")>>

research_patterns ==
    <<Pattern(<<HH, WS, <<"R", "E", "S", "E", "A", "R", "C", "H">>, SEP, <<"P", "U", "B", "L", "I", "C", "A", "T", "I", "O", "N", "S">>, WS, HH>>, "", TRUE, "##"),
      Pattern(<<HH, WS, <<"P", "U", "B", "L", "I", "C", "A", "T", "I", "O", "N", "S">>, WS, HH>>, "", TRUE, "##"),
      Pattern(<<HH, WS, <<"R", "E", "S", "E", "A", "R", "C", "H">>>>, "", FALSE, "##\\s*\\w"),
      Pattern(<<HH, WS, <<"P", "U", "B", "L", "I", "C", "A", "T", "I", "O", "N", "S">>>>, "", FALSE, "##\\s*\\w"),
      Pattern(<<HH, WS, <<"P", "U", "B", "L", "I", "C", "A", "T", "I", "O", "N", "S">>>>, "[\\s\\S]*?\\n", TRUE, "##")>>

\* str.split(sep) on one character out of seps: empty pieces are kept
RECURSIVE SplitKeep(_, _)
SplitKeep(s, seps) ==
    LET hits == {k \in 1..Len(s) : s[k] \in seps}
        q == CHOOSE k \in hits : \A m \in hits : k <= m
    IN IF hits = {} THEN <<s>>
       ELSE <<SubSeq(s, 1, q - 1)>> \o SplitKeep(SubSeq(s, q + 1, Len(s)), seps)

NotEmpty(x) == x # <<>>

\* the pieces between separators that are not empty (str.split() with
\* whitespace, re.split(r'[,;]|\s+') followed by the filter on s.strip())
SplitWords(s, seps) == SelectSeq(SplitKeep(s, seps), NotEmpty)

WhiteSpace == {" ", "\t", NL}

\* [line.strip() for line in text.split("\n") if line.strip()]
StrippedLines(text) ==
    LET lines == SplitKeep(text, {NL})
    IN SelectSeq([k \in 1..Len(lines) |-> Strip(lines[k])], NotEmpty)

\* sep.join(parts)
RECURSIVE Join(_, _)
Join(parts, sep) ==
    IF parts = <<>> THEN <<>>
    ELSE IF Len(parts) = 1 THEN parts[1]
    ELSE parts[1] \o sep \o Join(Tail(parts), sep)

\* line.startswith(("-", BULLET, "*"))
StartsWithBullet(line) == line # <<>> /\ line[1] \in {"-", BULLET, "*"}

\* re.match(r'^\d+\.', line)
StartsNumbered(line) ==
    \E k \in 2..Len(line) : line[k] = "." /\ \A m \in 1..(k - 1) : line[m] \in Digits

\* re.sub(r'^[chars]\s*', '', line)
DropLead(line, chars) ==
    IF line # <<>> /\ line[1] \in chars THEN SubSeq(line, SkipSpace(line, 2), Len(line)) ELSE line

\* re.split(r"###\s*", text)
RECURSIVE SplitEntries(_)
SplitEntries(text) ==
    LET i == IndexFrom(text, 1, <<"#", "#", "#">>)
    IN IF i = 0 THEN <<text>>
       ELSE <<SubSeq(text, 1, i - 1)>> \o SplitEntries(SubSeq(text, SkipSpace(text, i + 3), Len(text)))

\* the entries that are not blank
Entries(text) == SelectSeq(SplitEntries(text), LAMBDA e : Strip(e) # <<>>)

\* _parse_summary, lines 43-49: the lines that do not start with "#"
SummaryOf(text) ==
    Join(SelectSeq(StrippedLines(text), LAMBDA line : line[1] # "#"), <<NL>>)

\* lines 118-138: the bullets under a job header
RECURSIVE CollectBullets(_, _, _)
CollectBullets(lines, current_bullet, bullets) ==
    LET saved == IF current_bullet # <<>> THEN Append(bullets, Strip(current_bullet)) ELSE bullets
    IN IF lines = <<>> THEN saved
       ELSE IF StartsWithBullet(Head(lines)) \/ StartsNumbered(Head(lines))
            THEN CollectBullets(Tail(lines), DropLead(Head(lines), {"-", BULLET, "*", "."} \cup Digits), saved)
            ELSE CollectBullets(Tail(lines), current_bullet \o <<" ">> \o Head(lines), bullets)

\* lines 83-151 on one entry whose header has no "|"
ExperienceOf(entry) ==
    LET lines == StrippedLines(entry)
        header == lines[1]
        at == IndexFrom(header, 1, <<" ", "a", "t", " ">>)
    IN [title |-> IF at = 0 THEN header ELSE Strip(SubSeq(header, 1, at - 1)),
        company |-> IF at = 0 THEN <<>> ELSE Strip(SubSeq(header, at + 4, Len(header))),
        bullets |-> CollectBullets(Tail(lines), <<>>, <<>>)]

\* lines 76-154
ExperiencesOf(text) ==
    LET es == Entries(text)
    IN SelectSeq([k \in 1..Len(es) |-> ExperienceOf(es[k])],
                 LAMBDA e : e.title # <<>> \/ e.company # <<>> \/ e.bullets # <<>>)

\* lines 185-234 on one entry whose header has no "|" and whose lines have
\* no ":"
ProjectOf(entry) ==
    LET lines == StrippedLines(entry)
        rest == [k \in 1..(Len(lines) - 1) |->
                    DropLead(lines[k + 1], {BULLET, "-", "*", "."} \cup Digits)]
    IN [name |-> lines[1],
        description |-> Join(SelectSeq(rest, LAMBDA line : ~StartsWithBullet(line)), <<" ">>),
        achievements |-> SelectSeq(rest, StartsWithBullet)]

\* lines 180-238
ProjectsOf(text) ==
    LET es == Entries(text)
    IN SelectSeq([k \in 1..Len(es) |-> ProjectOf(es[k])],
                 LAMBDA e : e.description # <<>> \/ e.achievements # <<>>)

\* dict[key] = value on a dict kept as the sequence of its items
DictSet(dict, key, value) ==
    IF \E k \in 1..Len(dict) : dict[k].key = key
    THEN [k \in 1..Len(dict) |-> IF dict[k].key = key THEN [key |-> key, value |-> value] ELSE dict[k]]
    ELSE Append(dict, [key |-> key, value |-> value])

\* re.split(r'\n\s*\n', text): the runs of lines between blank lines
RECURSIVE Blocks(_, _, _)
Blocks(lines, block, blocks) ==
    IF lines = <<>> THEN Append(blocks, block)
    ELSE IF Blank(Head(lines)) /\ Tail(lines) # <<>> /\ block # <<>>
         THEN Blocks(Tail(lines), <<>>, Append(blocks, block))
         ELSE Blocks(Tail(lines), IF Blank(Head(lines)) THEN block ELSE Append(block, Strip(Head(lines))),
                     blocks)

\* the words of these lines, in order
RECURSIVE WordsOf(_)
WordsOf(lines) ==
    IF lines = <<>> THEN <<>>
    ELSE SplitWords(Head(lines), WhiteSpace \cup {",", ";"}) \o WordsOf(Tail(lines))

\* lines 268-286: a block is a category line without ":" and its skills
RECURSIVE CategoriesOf(_, _)
CategoriesOf(blocks, dict) ==
    IF blocks = <<>> THEN dict
    ELSE LET lines == Head(blocks)
             first == IF lines = <<>> THEN <<>> ELSE lines[1]
             name == IF Len(first) > 1 /\ first[1] = "*" THEN Tail(first) ELSE first
             category == Title(Strip(name))
             skills == IF lines = <<>> THEN <<>> ELSE WordsOf(Tail(lines))
         IN CategoriesOf(Tail(blocks),
                         IF category # <<>> /\ skills # <<>> THEN DictSet(dict, category, skills) ELSE dict)

\* lines 265-303
SkillsOf(text) ==
    LET dict == CategoriesOf(Blocks(SplitKeep(text, {NL}), <<>>, <<>>), <<>>)
        plain == SelectSeq(StrippedLines(text), LAMBDA line : line[1] # "#")
        all_skills == WordsOf([k \in 1..Len(plain) |->
                                  DropLead(plain[k], {"-", BULLET, "*", "."} \cup Digits)])
    IN IF dict # <<>> THEN dict
       ELSE IF all_skills # <<>> THEN <<[key |-> <<"T", "e", "c", "h", "n", "i", "c", "a", "l", " ", "S", "k", "i", "l", "l", "s">>, value |-> all_skills]>>
       ELSE <<>>

IsUpper(c) == \E k \in 1..26 : UpperLetters[k] = c
IsLower(c) == \E k \in 1..26 : LowerLetters[k] = c

\* the first position from p on that holds no character of the set
RECURSIVE SkipChars(_, _, _)
SkipChars(s, p, chars) == IF p <= Len(s) /\ s[p] \in chars THEN SkipChars(s, p + 1, chars) ELSE p

\* [A-Za-z]{3,9}\s+\d{4} at p: the position behind it, 0 when it is not there
MonthYearAt(s, p) ==
    LET q == SkipChars(s, p, {UpperLetters[k] : k \in 1..26} \cup {LowerLetters[k] : k \in 1..26})
        r == SkipSpace(s, q)
    IN IF /\ q - p >= 3 /\ q - p <= 9 /\ r > q /\ r + 3 <= Len(s)
          /\ \A k \in r..(r + 3) : s[k] \in Digits
       THEN r + 4 ELSE 0

\* [A-Za-z]{3,9}\s+\d{4}|Present|Current up to the end of the line
DateEndsAt(s, p) ==
    \/ MonthYearAt(s, p) = Len(s) + 1
    \/ SubSeq(s, p, Len(s)) \in {<<"P", "r", "e", "s", "e", "n", "t">>, <<"C", "u", "r", "r", "e", "n", "t">>}

\* the date pattern of line 511
IsDate(line) ==
    \/ DateEndsAt(line, 1)
    \/ LET q == MonthYearAt(line, 1)
           d == IF q = 0 THEN 0 ELSE SkipSpace(line, q)
       IN /\ q # 0 /\ d <= Len(line) /\ line[d] \in {"-", EN_DASH}
          /\ DateEndsAt(line, SkipSpace(line, d + 1))

\* [A-Z][a-z]+ at p: the position behind it, 0 when it is not there
CapWordAt(s, p) ==
    IF p <= Len(s) /\ IsUpper(s[p]) /\ SkipChars(s, p + 1, {LowerLetters[k] : k \in 1..26}) > p + 1
    THEN SkipChars(s, p + 1, {LowerLetters[k] : k \in 1..26}) ELSE 0

\* (?:[\s,][A-Z][a-z]+)*(?:,\s*[A-Z]{2})?$ from p on
RECURSIVE LocationTail(_, _)
LocationTail(s, p) ==
    \/ p = Len(s) + 1
    \/ /\ p <= Len(s) /\ s[p] \in WhiteSpace \cup {","}
       /\ CapWordAt(s, p + 1) # 0 /\ LocationTail(s, CapWordAt(s, p + 1))
    \/ /\ p <= Len(s) /\ s[p] = ","
       /\ SkipSpace(s, p + 1) + 1 = Len(s)
       /\ IsUpper(s[Len(s) - 1]) /\ IsUpper(s[Len(s)])

\* the location pattern of line 514
IsLocation(line) == CapWordAt(line, 1) # 0 /\ LocationTail(line, CapWordAt(line, 1))

NoEntry == [degree |-> <<>>, institution |-> <<>>, date |-> <<>>, location |-> <<>>, details |-> <<>>]

\* lines 486-526 over the stripped lines that are not blank: the entry dicts,
\* a key that is not set being an empty tuple
RECURSIVE EducationEntries(_, _, _)
EducationEntries(lines, current_entry, entries) ==
    IF lines = <<>> THEN (IF current_entry # NoEntry THEN Append(entries, current_entry) ELSE entries)
    ELSE LET line == Head(lines)
             parts == SplitKeep(line, {"|", "-"})
         IN IF StartsWith(line, HH) THEN EducationEntries(Tail(lines), current_entry, entries)
            ELSE IF \/ Contains(line, <<" ", "i", "n", " ">>) \/ Contains(line, <<" ", "a", "t", " ">>)
                    \/ Contains(line, <<" ", "f", "r", "o", "m", " ">>) \/ Contains(line, <<"|">>)
            THEN EducationEntries(Tail(lines),
                     [NoEntry EXCEPT !.degree = <<Strip(parts[1])>>,
                                     !.institution = IF Len(parts) >= 2 THEN <<Strip(parts[2])>> ELSE <<>>,
                                     !.date = IF Len(parts) >= 3 THEN <<Strip(parts[3])>> ELSE <<>>],
                     IF current_entry # NoEntry THEN Append(entries, current_entry) ELSE entries)
            ELSE IF IsDate(line)
            THEN EducationEntries(Tail(lines), [current_entry EXCEPT !.date = <<line>>], entries)
            ELSE IF IsLocation(line)
            THEN EducationEntries(Tail(lines), [current_entry EXCEPT !.location = <<line>>], entries)
            ELSE IF \E x \in {"gpa", "grade", "honor", "distinction", "thesis"} : Contains(Lower(line), Str(x))
            THEN EducationEntries(Tail(lines),
                     [current_entry EXCEPT !.details = Append(@, line)], entries)
            ELSE IF StartsWithBullet(line)
            THEN EducationEntries(Tail(lines),
                     [current_entry EXCEPT !.details =
                         Append(@, SubSeq(line, SkipChars(line, 1, {"-", BULLET, "*", " "}), Len(line)))],
                     entries)
            ELSE EducationEntries(Tail(lines), current_entry, entries)

\* lines 529-542: the string stored for one entry
EducationString(entry) ==
    Join(entry.degree \o entry.institution \o entry.date, <<" ", "|", " ">>)
    \o (IF entry.details = <<>> THEN <<>>
        ELSE <<NL>> \o Join([k \in 1..Len(entry.details) |-> <<BULLET, " ">> \o entry.details[k]], <<NL>>))

\* lines 483-542
EducationStrings(entries) == [k \in 1..Len(entries) |-> EducationString(entries[k])]

EducationOf(text) == EducationStrings(EducationEntries(StrippedLines(text), NoEntry, <<>>))

\* _parse_publication_entry on a text without quote, parenthesis or digit:
\* the title falls back to the text, cut behind ten words
PublicationOf(text) ==
    LET words == SplitWords(text, WhiteSpace)
    IN [title |-> IF Len(words) > 10 THEN Join(SubSeq(words, 1, 10), <<" ">>) \o <<".", ".", ".">> ELSE text]

\* lines 594-600 and 608-613: the lines gathered become one publication
ClosePublication(current_pub, publications) ==
    IF current_pub # <<>> /\ Strip(Join(current_pub, <<" ">>)) # <<>>
    THEN Append(publications, PublicationOf(Strip(Join(current_pub, <<" ">>))))
    ELSE publications

\* lines 582-613 over the stripped lines that are not blank; of the start
\* patterns of lines 574-580 the numbered and the bullet one can match a line
\* without "[", "," and a year
RECURSIVE PublicationsOf(_, _, _)
PublicationsOf(lines, current_pub, publications) ==
    IF lines = <<>> THEN ClosePublication(current_pub, publications)
    ELSE LET line == Head(lines)
             is_new_pub == StartsNumbered(line) \/ StartsWithBullet(line)
             cleaned == DropLead(line, Digits \cup {"-", BULLET, "*"})
         IN IF StartsWith(line, HH) THEN PublicationsOf(Tail(lines), current_pub, publications)
            ELSE IF is_new_pub /\ current_pub # <<>>
            THEN PublicationsOf(Tail(lines), <<cleaned>>, ClosePublication(current_pub, publications))
            ELSE PublicationsOf(Tail(lines), Append(current_pub, cleaned), publications)

\* ---- the six section parsers: [raised |-> whether the call raised,
\* tailored |-> the TailoredResumeData afterwards]. found is what the pattern
\* loop leaves: without a section text the data stay as they are
NoSection(found) == found.raised \/ found.text = <<>>
Kept(found, t) == [raised |-> found.raised, tailored |-> t]
Stored(t) == [raised |-> FALSE, tailored |-> t]

\* lines 43-52
store_summary(found, t) ==
    IF NoSection(found) THEN Kept(found, t) ELSE Stored([t EXCEPT !.summary = SummaryOf(found.text)])

parse_summary(text, t) == store_summary(FindSection(text, summary_patterns), t)

\* lines 73-154
store_experience(found, t) ==
    IF NoSection(found) THEN Kept(found, t)
    ELSE Stored([t EXCEPT !.experience = @ \o ExperiencesOf(found.text)])

parse_experience(text, t) == store_experience(FindSection(text, exp_patterns), t)

\* lines 176-238
store_projects(found, t) ==
    IF NoSection(found) THEN Kept(found, t) ELSE Stored([t EXCEPT !.projects = @ \o ProjectsOf(found.text)])

parse_projects(text, t) == store_projects(FindSection(text, project_patterns), t)

\* lines 299-301: the dict is stored when it is not empty
store_dict(t, skills) == IF skills # <<>> THEN [t EXCEPT !.technical_skills = skills] ELSE t

\* lines 261-303
store_skills(found, t) ==
    IF NoSection(found) THEN Kept(found, t) ELSE Stored(store_dict(t, SkillsOf(found.text)))

parse_skills(text, t) == store_skills(FindSection(text, skills_patterns), t)

\* lines 479-542
store_education(found, t) ==
    IF NoSection(found) THEN Kept(found, t) ELSE Stored([t EXCEPT !.education = EducationOf(found.text)])

parse_education(text, t) == store_education(FindSection(text, edu_patterns), t)

\* lines 569-616
store_publications(found, t) ==
    IF NoSection(found) THEN Kept(found, t)
    ELSE Stored([t EXCEPT !.research_publications = PublicationsOf(StrippedLines(found.text), <<>>, <<>>)])

parse_research_publications(text, t) == store_publications(FindSection(text, research_patterns), t)

\* ---- parse_llm_response
ParseFrame == UNCHANGED <<bucketVars, keyVars, locVars, gatherVars, docVars, procVars, dashVars, styleVars, fetchVars, yieldVars>>

\* TailoredResumeData()
NewTailored ==
    [summary |-> <<>>, experience |-> <<>>, projects |-> <<>>, technical_skills |-> <<>>,
     education |-> <<>>, research_publications |-> <<>>]

\* the lines a response is made of
ResponseLines ==
    {Str(w) : w \in {"## SUMMARY", "## Experience", "## WORK EXPERIENCE", "## PROJECTS ##", "## SKILLS",
                     "## EDUCATION", "## RESEARCH PUBLICATIONS", "### Dev", "Dev", "- App"}}

Responses == {Join(lines, <<NL>>) : lines \in SeqsUpTo(ResponseLines, MaxLines)}

ParseInit ==
    /\ response \in Responses
    /\ parse_pc = "_parse_summary"
    /\ parsed = NewTailored
    /\ BucketIdle /\ KeyIdle /\ LocIdle /\ GatherIdle /\ DocIdle /\ ProcIdle /\ DashIdle /\ StyleIdle /\ FetchIdle /\ YieldIdle

\* lines 16-17
ReturnEmpty ==
    /\ parse_pc = "_parse_summary" /\ response = <<>>
    /\ parse_pc' = "done"
    /\ UNCHANGED <<response, parsed>>
    /\ ParseFrame

\* one of lines 20-25: the parser is called, and what it raises leaves
\* parse_llm_response
CallParser(name, result, next) ==
    /\ parse_pc = name /\ response # <<>>
    /\ parse_pc' = IF result.raised THEN "raised in " \o name ELSE next
    /\ parsed' = IF result.raised THEN parsed ELSE result.tailored
    /\ UNCHANGED response
    /\ ParseFrame

ParseSummary == CallParser("_parse_summary", parse_summary(response, parsed), "_parse_experience")
ParseExperience == CallParser("_parse_experience", parse_experience(response, parsed), "_parse_projects")
ParseProjects == CallParser("_parse_projects", parse_projects(response, parsed), "_parse_skills")
ParseSkills == CallParser("_parse_skills", parse_skills(response, parsed), "_parse_education")
ParseEducation ==
    CallParser("_parse_education", parse_education(response, parsed), "_parse_research_publications")
ParseResearchPublications ==
    CallParser("_parse_research_publications", parse_research_publications(response, parsed), "done")

ParseNext ==
    \/ ReturnEmpty \/ ParseSummary \/ ParseExperience \/ ParseProjects
    \/ ParseSkills \/ ParseEducation \/ ParseResearchPublications

\* -------------------------------------------------------------------- C4
\* the index of the first heading paragraph with this text behind index i
FirstHeadingAfter(body, i, text) ==
    LET hits == {k \in (i + 1)..Len(body) : body[k].text = text /\ is_heading(body[k])}
    IN IF hits = {} THEN 0 ELSE CHOOSE k \in hits : \A m \in hits : k <= m

\* C4: in a document with a "SKILLS" heading, paragraphs, then an
\* "EDUCATION" heading, clearing the SKILLS section leaves the EDUCATION
\* heading in the document as it was, and every paragraph behind it too.
C4_ClearKeepsNextSection ==
    engine_call.op = "clear" =>
        \A i \in 1..Len(doc_before) :
            (doc_before[i].id = engine_call.start /\ FirstHeadingAfter(doc_before, i, <<"E", "D", "U", "C", "A", "T", "I", "O", "N">>) # 0)
            => LET j == FirstHeadingAfter(doc_before, i, <<"E", "D", "U", "C", "A", "T", "I", "O", "N">>)
               IN \E k \in 1..Len(doc) :
                     /\ doc[k] = doc_before[j]
                     /\ SubSeq(doc, k, Len(doc)) = SubSeq(doc_before, j, Len(doc_before))

\* cleared: SKILLS heading, a paragraph, the EDUCATION heading, a paragraph
C4_Witness ==
    /\ engine_call.op = "clear"
    /\ Len(doc_before) = 4
    /\ doc_before[1].text = <<"S", "K", "I", "L", "L", "S">> /\ engine_call.start = 1
    /\ doc_before[2].text = <<"P", "y", "t", "h", "o", "n">>
    /\ doc_before[3].text = <<"E", "D", "U", "C", "A", "T", "I", "O", "N">> /\ is_heading(doc_before[3])
    /\ doc_before[4].text = <<"P", "y", "t", "h", "o", "n">>

\* -------------------------------------------------------------- C5, C6, C7
\* the job at hand went through this step
Did(e) == \E k \in 1..Len(events) : events[k] = e

\* step a of the job at hand came before its step b
Before(a, b) == \E i \in 1..Len(events), k \in 1..Len(events) : i < k /\ events[i] = a /\ events[k] = b

C6_TiersOnlyAfterRaise ==
    /\ Did("basic_started") =>
          \/ Before("generate_raised", "basic_started")
          \/ Before("tailored_raised", "basic_started")
    /\ Did("text_written") => Before("basic_raised", "text_written")

\* some line or paragraph of the file holds the text, letter case aside
FileHolds(file, text) ==
    \E k \in 1..Len(file.body) :
        Contains(Upper(IF file.kind = "text" THEN file.body[k] ELSE file.body[k].text), Upper(text))

\* C7: a document built from scratch holds the candidate's name and the
\* tailored summary, and so does the text file written for a job whose
\* tailored content was generated.
C7_FallbackHoldsNameAndSummary ==
    /\ (create_call.op = "create" /\ create_call.built = "scratch" /\ create_call.saved # <<>>)
       => /\ FileHolds(create_call.saved[1], profile.name)
          /\ FileHolds(create_call.saved[1], tailored[1].summary)
    /\ (resume_out # <<>> /\ tailored # <<>> /\ Did("text_written"))
       => /\ FileHolds(resume_out[1], profile.name)
          /\ FileHolds(resume_out[1], tailored[1].summary)

\* ---------------------------------------------------------------------- C8
\* the response names the word, in whatever letter case
Mentions(word) == Contains(Upper(response), Upper(word))

\* C8: whatever the response is (empty, without ## markers, cut short, with
\* markers in any letter case, with any of the section headers in any order),
\* none of the six section parsers raises, and a field whose section the
\* response does not name is left at its default.
C8_ParsersNeverRaise ==
    /\ parse_pc \notin {"raised in " \o name : name \in
           {"_parse_summary", "_parse_experience", "_parse_projects", "_parse_skills",
            "_parse_education", "_parse_research_publications"}}
    /\ parse_pc = "done" =>
          /\ ~Mentions(<<"S", "U", "M", "M", "A", "R", "Y">>) => parsed.summary = <<>>
          /\ ~Mentions(<<"E", "X", "P", "E", "R", "I", "E", "N", "C", "E">>) /\ ~Mentions(<<"W", "O", "R", "K">>)
                => parsed.experience = <<>>
          /\ ~Mentions(<<"P", "R", "O", "J", "E", "C", "T", "S">>) => parsed.projects = <<>>
          /\ ~Mentions(<<"S", "K", "I", "L", "L", "S">>) => parsed.technical_skills = <<>>
          /\ ~Mentions(<<"E", "D", "U", "C", "A", "T", "I", "O", "N">>) => parsed.education = <<>>
          /\ ~Mentions(<<"R", "E", "S", "E", "A", "R", "C", "H">>)
             /\ ~Mentions(<<"P", "U", "B", "L", "I", "C", "A", "T", "I", "O", "N", "S">>)
                => parsed.research_publications = <<>>

\* -------------------------------------------------------------- C9, C10
\* C9: the consume calls that have returned by time T after construction
\* never exceed C + T*C/60 (T*C/60 tokens is (now - born)/60 on the grid).
C9_AdmittedRateBounded ==
    Sixty * returned <= Sixty * capacity + (now - born)

\* a call beyond the burst had to wait for its token
C9_Witness ==
    /\ returned = capacity + 1
    /\ lastCall.kind = "sleep" /\ lastCall.n = 1
    /\ now - born = Sixty

\* C10: between calls 0 <= tokens <= capacity, and self.last never decreases.
C10_TokensInRangeLastMonotonic ==
    /\ [](0 <= tokens /\ tokens <= Sixty * capacity)
    /\ [][last' >= last]_vars

\* a call that refilled up to the cap and then deducted
C10_Witness ==
    /\ lastCall.kind = "pass"
    /\ lastCall.before + lastCall.elapsed > Sixty * capacity
    /\ tokens = Sixty * capacity - Sixty * lastCall.n
    /\ last > born

\* --------------------------------------------------------------------- C11
\* the job_ids that passed the gate, in order
Worked == [k \in 1..Len(job_log) |-> job_log[k].job_id]

\* C11: process_jobs generates documents and calls apply only for a job that
\* passed the gate; a job passes the gate only when its job_id has no
\* application record at that moment; and no job_id passes the gate twice in
\* one call, however often it occurs in the input.
C11_GateNeverReprocesses ==
    /\ [](\A i, k \in 1..Len(job_log) : i # k => job_log[i].job_id # job_log[k].job_id)
    /\ [](proc_pc \in {"generate", "create", "cover", "apply", "fallback", "fallback_apply"}
            => job_log # <<>> /\ job_log[Len(job_log)] = [job_id |-> job.job_id, fate |-> "open"])
    /\ [](\A k \in 1..Len(apply_calls) : \E i \in 1..Len(job_log) : job_log[i].job_id = apply_calls[k])
    /\ [][Len(job_log') > Len(job_log) => /\ Worked' = Append(Worked, job.job_id)
                                          /\ job.job_id \notin applications]_vars

\* a call that returned after skipping a job whose job_id had a record and
\* working on the other job, to which it applied
C11_Witness ==
    /\ proc_pc = "done" /\ Len(jobs) = 2
    /\ jobs[1].job_id \in applications /\ jobs[1].job_id # jobs[2].job_id
    /\ Worked = <<jobs[2].job_id>> /\ apply_calls = <<jobs[2].job_id>>

\* --------------------------------------------------------------------- C12
\* C12: whenever apply returns for a job, submitted or not, the job_id has an
\* application record afterwards.
C12_ApplyAlwaysRecords ==
    [][(Len(apply_calls') > Len(apply_calls)
        /\ events'[Len(events')] \in {"apply_submitted", "apply_declined",
                                       "fallback_apply_submitted", "fallback_apply_declined"})
       => is_applied(applications', job.job_id)]_vars

\* --------------------------------------------------------------------- C13
\* the steps of the loop body in the order the code takes them
StageOf(pc) ==
    CASE pc = "loop" -> 9 [] pc = "generate" -> 8 [] pc = "create" -> 7 [] pc = "cover" -> 6
      [] pc = "apply" -> 5 [] pc = "fallback" -> 4 [] pc = "fallback_apply" -> 3
      [] pc = "end" -> 2 [] OTHER -> 0

\* an upper bound on the steps process_jobs still has to take
StepsLeft == IF proc_pc \in {"done", "aborted"} THEN 0 ELSE (Len(jobs) + 1 - job_i) * 10 + StageOf(proc_pc)

\* C13: no failure of content generation, of the resume, of the cover letter,
\* of the application or of the fallback resume leaves process_jobs: the one
\* exit by exception is is_applied raising at the gate; the loop moves from
\* one job to the next, every step brings the end of the call nearer and the
\* call is always at a step of the loop, so it ends with every job reached.
C13_BatchNeverAborts ==
    /\ [](proc_pc = "aborted" => events = <<"is_applied_raised">>)
    /\ [](proc_pc = "done" => job_i = Len(jobs) + 1)
    /\ [](StageOf(proc_pc) > 0 \/ proc_pc \in {"done", "aborted"})
    /\ [][job_i' \in {job_i, job_i + 1} /\ StepsLeft' < StepsLeft]_vars

\* the call returned after a first job for which every tier failed and a
\* second job that got its tailored resume
C13_Witness ==
    /\ proc_pc = "done" /\ Len(job_log) = 2
    /\ job_log[1].fate = "failed" /\ job_log[2].fate = "tailored"

\* --------------------------------------------------------------------- C14
\* every (keyword, provider) pair, keyword by keyword
AllPairs == [k \in 1..(Len(keywords) * Len(providers)) |->
                <<keywords[((k - 1) \div Len(providers)) + 1], providers[((k - 1) % Len(providers)) + 1]>>]

\* C14: a provider call that ended with an error (a fetch error the provider
\* caught, or an exception caught at line 47) added nothing to results, and
\* gather_jobs still returns only after every (keyword, provider) pair was
\* searched.
C14_ProviderErrorIsolated ==
    /\ ended \in {"fetch_error", "raised"} => Len(results) = call_from
    /\ gather_pc = "done" => searched = AllPairs

\* --------------------------------------------------------------------- C15
\* C15: an exception raised by is_applied or mark_applied is caught nowhere
\* in the pipeline: once one was raised for the job at hand, process_jobs was
\* left by it.
C15_PersistenceFailuresPropagate ==
    (Did("is_applied_raised") \/ Did("apply_mark_raised") \/ Did("fallback_apply_mark_raised"))
    => proc_pc = "aborted"

\* --------------------------------------------------------------------- C16
\* C16: once Stop was pressed the search thread starts no further provider
\* call, and no job is appended by a call begun after the stop.
C16_StopHaltsSearchThread == late_calls = 0 /\ late_jobs = 0

AllSix(t) ==
    /\ t.summary # <<>> /\ t.experience # <<>> /\ t.projects # <<>>
    /\ t.technical_skills # <<>> /\ t.education # <<>> /\ t.research_publications # <<>>

\* C18: when the tailored data generated for a job has all six sections
\* filled and the template, if there is one, can be read,
\* create_tailored_resume has a document to save and, unless the save itself
\* fails, does not raise.
C18_SixSectionsGiveAResume ==
    (create_call.op = "create" /\ create_call.template # "corrupt" /\ AllSix(tailored[1]))
    => /\ create_call.built # "none"
       /\ create_call.raised => Did("tailored_raised") /\ create_call.saved = <<>>

\* --------------------------------------------------------------------- C19
\* C19: every reference the template engine makes to a named paragraph or
\* table style tolerates a template without that style: no section update
\* raises for a missing style, and the style a finished update referred to is
\* in the styles part afterwards.
C19_MissingStyleTolerated ==
    \A k \in 1..Len(style_log) :
        /\ ~style_log[k].raised
        /\ style_log[k].section = "EDUCATION" => "Table Normal" \in doc_styles
        /\ style_log[k].section = "SUMMARY" => "Body Text" \in doc_styles

\* --------------------------------------------------------------------- C20
\* the trimmed, lower-cased components job_key joins
Normalized(t) == <<Lower(Strip(t[1])), Lower(Strip(t[2])), Lower(Strip(t[3]))>>

\* C20: two triples whose trimmed, lower-cased components differ in at least
\* one position get different pre-hash strings and so different keys, also
\* when a component holds the separator or a part of it.
C20_DistinctTriplesDistinctKeys ==
    (keys # <<>> /\ \E i \in 1..3 : Normalized(triple)[i] # Normalized(other)[i])
        => keys[1] # keys[2]

\* --------------------------------------------------------------------- C21
\* the index of the first paragraph behind index i whose style says heading,
\* title or subtitle; 0 when there is none
BoundaryAfter(body, i) ==
    LET hits == {k \in (i + 1)..Len(body) : is_heading(body[k])}
    IN IF hits = {} THEN 0 ELSE CHOOSE k \in hits : \A m \in hits : k <= m

\* C21: clearing from a start paragraph removes exactly the paragraphs
\* strictly between it and the next paragraph whose style is a heading, title
\* or subtitle style, whatever that paragraph's text; the start paragraph
\* stays and the call returns the boundary paragraph, or none at the end of
\* the document.
C21_ClearsUpToNextBoundary ==
    engine_call.op = "clear" =>
        \A i \in 1..Len(doc_before) :
            doc_before[i].id = engine_call.start =>
                LET j == BoundaryAfter(doc_before, i)
                IN IF j = 0
                   THEN doc = SubSeq(doc_before, 1, i) /\ engine_call.next = <<>>
                   ELSE /\ doc = SubSeq(doc_before, 1, i) \o SubSeq(doc_before, j, Len(doc_before))
                        /\ engine_call.next = <<doc_before[j]>>

\* --------------------------------------------------------------------- C22
\* the index in the body of the element with this id; 0 when there is none
IndexOfId(body, id) ==
    LET hits == {k \in 1..Len(body) : body[k].id = id}
    IN IF hits = {} THEN 0 ELSE CHOOSE k \in hits : TRUE

\* the indexes of the elements the call added to the document
AddedAt == {k \in 1..Len(doc) : IndexOfId(doc_before, doc[k].id) = 0}

\* C22: when a section update finds its heading and a heading boundary
\* follows it, the update does not raise and all the content it adds lies
\* behind the section's heading and ends directly before the boundary heading.
C22_ContentBeforeBoundary ==
    (engine_call.op = "update" /\ engine_call.found # <<>>
        /\ BoundaryAfter(doc_before, IndexOfId(doc_before, engine_call.found[1].id)) # 0)
    => LET i == IndexOfId(doc_before, engine_call.found[1].id)
           b == doc_before[BoundaryAfter(doc_before, i)].id
       IN /\ ~engine_call.raised
          /\ AddedAt # {}
          /\ IndexOfId(doc, b) # 0
          /\ \A k \in AddedAt : IndexOfId(doc, engine_call.found[1].id) < k /\ k < IndexOfId(doc, b)
          /\ IndexOfId(doc, b) - 1 \in AddedAt

\* --------------------------------------------------------------------- C23
\* the paragraphs of the body whose text is one of the heading texts of section k
HeadingsOf(body, k) ==
    {i \in 1..Len(body) : \E c \in 1..Len(Candidates(k)) : Upper(body[i].text) = Upper(Str(Candidates(k)[c]))}

\* C23: each section update looks for its heading under several names in a
\* fixed order, the first one found winning (so it finds a heading that is
\* there under its usual name and goes on without raising); only when none is
\* found it appends a new heading and the content at the end of the document;
\* afterwards the document has one heading of the section.
C23_HeadingFoundOrAppended ==
    engine_call.op = "update" =>
        /\ ~engine_call.raised
        /\ Len(Candidates(engine_call.section)) > 1
        /\ engine_call.found = <<>> =>
              /\ SubSeq(doc, 1, Len(doc_before)) = doc_before
              /\ Len(doc) > Len(doc_before) + 1
              /\ HeadingsOf(doc, engine_call.section) = {Len(doc_before) + 1}
        /\ engine_call.found # <<>> =>
              HeadingsOf(doc, engine_call.section) = HeadingsOf(doc_before, engine_call.section)

\* --------------------------------------------------------------------- C24
\* the texts of the elements the call added, in document order
RECURSIVE AddedTexts(_)
AddedTexts(k) ==
    IF k > Len(doc) THEN <<>>
    ELSE (IF k \in AddedAt THEN <<doc[k].text>> ELSE <<>>) \o AddedTexts(k + 1)

\* what a list of entry texts looks like with one blank paragraph between
\* successive entries
RECURSIVE Separated(_)
Separated(texts) ==
    IF Len(texts) <= 1 THEN texts ELSE <<Head(texts), <<>>>> \o Separated(Tail(texts))

\* C24: a projects update with entries e1..en leaves them in the document in
\* input order with exactly one blank paragraph between successive entries
\* and none before e1 or behind en (the new heading comes first when the
\* section had none).
C24_EntriesInOrderSeparated ==
    (engine_call.op = "update" /\ engine_call.section = 3)
    => /\ ~engine_call.raised
       /\ AddedTexts(1) = (IF engine_call.found = <<>> THEN <<<<"P", "R", "O", "J", "E", "C", "T", "S">>>> ELSE <<>>)
                              \o Separated(engine_call.data)

\* --------------------------------------------------------------------- C25
\* C25: every request a provider's search sends out (listing page, detail
\* page) comes directly after a consume call of that provider's bucket.
C25_EveryFetchRateLimited ==
    \A k \in 1..Len(fs_log) :
        (fs_log[k].what = "get" /\ fs_log[k].page \in {"listing", "detail"})
            => (k > 1 /\ fs_log[k - 1] = Consumed(fs_log[k].provider))

\* --------------------------------------------------------------------- C26
\* C26: consume(n) first refills by elapsed * (capacity/60), capped at
\* capacity; with at least n tokens it takes n and returns without sleeping;
\* otherwise it sleeps (n - tokens) * (60/capacity), leaves 0 tokens and
\* returns. Every call returns: a request is delayed, never rejected.
C26_ConsumePassesOrSleeps ==
    [][returned' # returned =>
          LET tok == Min(Sixty * capacity, tokens + (now - last))
              n == lastCall'.n
          IN /\ returned' = returned + 1
             /\ n \in 1..MaxN
             /\ IF tok >= Sixty * n
                THEN /\ lastCall'.kind = "pass" /\ lastCall'.slept = 0
                     /\ tokens' = tok - Sixty * n
                     /\ now' = now /\ last' = now
                ELSE /\ lastCall'.kind = "sleep" /\ lastCall'.slept = Sixty * n - tok
                     /\ tokens' = 0
                     /\ now' >= now + lastCall'.slept /\ last' = now']_vars

\* a call that found a part of what it asked for and slept for the rest
C26_Witness ==
    /\ lastCall.kind = "sleep" /\ tokens = 0
    /\ lastCall.before + lastCall.elapsed > 0
    /\ lastCall.slept = Sixty * lastCall.n - (lastCall.before + lastCall.elapsed)
    /\ lastCall.slept < Sixty * lastCall.n

\* --------------------------------------------------------------------- C27
\* C27: every JobPost a provider yields has job_id = job_key(title, company,
\* location) of its own fields, and its location passes is_location_ok under
\* the configured cities, countries and remote flags.
C27_YieldedPostKeyedAndFiltered ==
    yp_out # <<>> =>
        /\ yp_out[1].job_id = job_key(yp_out[1].title, yp_out[1].company, yp_out[1].location)
        /\ is_location_ok(yp_out[1].location, yp_cfg.cities, yp_cfg.countries,
                          yp_cfg.remote_ok, yp_cfg.remote_global_ok)

\* an Internshala card listed for Oslo whose detail page says Goa, yielded
\* with the detail page's location
C27_Witness ==
    /\ yp_provider = "internshala" /\ yp_out # <<>>
    /\ yp_card[1].loc = <<"O", "s", "l", "o">>
    /\ yp_card[1].detail # <<>> /\ yp_card[1].detail[1].loc = <<"G", "o", "a">>
    /\ yp_out[1].location = <<"G", "o", "a">>
    /\ yp_out[1].company = <<"A", "c", "m", "e">>

\* --------------------------------------------------------------------- C28
\* C28: with a template that exists and loads and tailored data that has a
\* summary, experience, skills and education, create_tailored_resume gets
\* through the template update without a raise and saves the document made
\* from the template, not one built from scratch.
C28_TemplateTierCompletes ==
    (create_call.op = "create" /\ create_call.template = "ok"
        /\ tailored[1].summary # <<>> /\ tailored[1].experience # <<>>
        /\ tailored[1].technical_skills # <<>> /\ tailored[1].education # <<>>)
    => /\ ~create_call.update_raised
       /\ create_call.built = "template"
       /\ ~create_call.raised => create_call.saved # <<>> /\ create_call.saved[1].kind = "docx"

\* --------------------------------------------------------------------- C29
\* the first / the second search thread is inside its loops
FirstActive == th_pc \in {"next", "iter"}
SecondActive == th2_pc = "running"

\* C29: at most one search thread runs at a time, search_running is true
\* exactly while a search thread is active, and a thread that finishes does
\* not clear the flag of a search started after it.
C29_OneSearchThread ==
    /\ [](~(FirstActive /\ SecondActive))
    /\ [](search_running <=> (FirstActive \/ SecondActive))
    /\ [][(FirstActive /\ th_pc' = "finished" /\ SecondActive) => search_running']_vars

\* --------------------------------------------------------------------- C30
\* C30: in one process_jobs run apply is called at most once per job, and a
\* job whose tailored resume was written is not given the basic resume over
\* it: the fallback and its apply call come only after the tailored resume
\* itself failed, not after the cover letter, apply or its recording raised.
C30_OneApplyNoOverwrite ==
    /\ \A i, k \in 1..Len(apply_calls) : i # k => apply_calls[i] # apply_calls[k]
    /\ Did("tailored_saved") => ~Did("basic_started")
    /\ \A e \in {"fallback_apply_submitted", "fallback_apply_declined", "fallback_apply_raised", "fallback_apply_mark_raised"} :
           Did(e) => ~Did("tailored_saved")

\* ------------------------------------------------------- specifications
SpecBucket == BucketInit /\ [][BucketNext]_vars
SpecKey == KeyInit /\ [][KeyNext]_vars
SpecLoc == LocInit /\ [][LocNext]_vars
SpecGather == GatherInit /\ [][GatherNext]_vars
SpecDoc == DocInit /\ [][DocNext]_vars
SpecProcess == ProcInit /\ [][ProcNext]_vars
SpecParse == ParseInit /\ [][ParseNext]_vars
SpecDash == DashInit /\ [][DashNext]_vars
SpecStyle == StyleInit /\ [][StyleNext]_vars
SpecFetch == FetchInit /\ [][FetchNext]_vars
SpecYield == YieldInit /\ [][YieldNext]_vars

====
